---- MODULE Spec2Model ----
(***************************************************************************)
(* Verification model of the MeteoSwiss polling-and-normalization engine   *)
(* (custom_components/meteoswiss): the TTL cache, the retry wrapper, the   *)
(* coordinators, the forecast fallback chain and the station directory.    *)
(*                                                                         *)
(* Several specifications share the variables below; each one moves only   *)
(* the variables of the component it is about and leaves the others at     *)
(* their initial values:                                                   *)
(*   SpecCache     cache.py, MeteoSwissCache driven by arbitrary calls     *)
(*   SpecRetry     retry.py, async_retry_with_backoff's wrapper            *)
(*   SpecForecast  forecast_coordinator.py, the three-source chain         *)
(*   SpecCurrent   coordinator.py / openmeteo_coordinator.py ticks over    *)
(*                 the process-wide current-weather cache                  *)
(*   SpecAlerts    alerts.py / binary_sensor.py, the alerts coordinator    *)
(*   SpecEntry     __init__.py, setup and unload of a config entry         *)
(*   SpecStations  stations_map.py, the station directory                  *)
(*   SpecNearby    stations_map.py, get_nearby_stations on a loaded        *)
(*                 directory                                               *)
(*   SpecDaily     weather.py, the daily forecast made of hourly data      *)
(*   SpecPollen    pollen.py, the scraping pollen client                   *)
(*   SpecOpenMeteo forecast_coordinator.py, the fetch of forecast source 1 *)
(*   SpecApp       forecast_coordinator.py, the fetch of forecast source 3 *)
(*   SpecCsv       coordinator.py, a station tick from the download on     *)
(*   SpecRegion    alerts.py / forecast_coordinator.py, the region codes   *)
(*   SpecSchedule  coordinator.py, scheduled and requested ticks over the  *)
(*                 current-weather cache                                   *)
(* Time is counted in seconds and moves in steps of TimeStep (150 s, half  *)
(* the default TTL) or of the default TTL; a delay of the retry policy is counted in tenths of a *)
(* second, so that 1.0 s is 10.                                            *)
(***************************************************************************)
EXTENDS Integers, Sequences, FiniteSets, TLC

VARIABLES
    now,          \* time.time(), in seconds
    cache,        \* MeteoSwissCache._cache: key -> CacheEntry (a dict)
    hits,         \* MeteoSwissCache._hits
    misses,       \* MeteoSwissCache._misses
    evictions,    \* MeteoSwissCache._evictions
    call,         \* the cache call made by the last step: [op, key]
    ret,          \* what that call returned
    nops,         \* number of cache calls made so far
    lastSet,      \* history: per key, the last set(key, v, ttl) not followed by invalidate/clear
    expiredSeen,  \* history: per key, an expired get/cleanup happened since that set
    max_attempts, \* retry.py: the decorator's parameters
    base_delay,
    max_delay,
    rpc,          \* retry.py: where the wrapper is
    attempt,      \* retry.py: the loop variable of the wrapper
    last_exception, \* retry.py: the wrapper's local
    invocations,  \* history: the outcome of every invocation of the wrapped function
    sleeps,       \* history: the delays passed to asyncio.sleep
    result,       \* what the wrapper returned or raised to its caller
    latitude,     \* forecast coordinator: _latitude
    longitude,    \* forecast coordinator: _longitude
    forecast_csv_url, \* forecast coordinator: _forecast_csv_url
    post_code,    \* forecast coordinator: _post_code
    data_source,  \* forecast coordinator: _data_source
    fpc,          \* forecast coordinator: where the tick is
    upstream,     \* what each forecast source answers during the current tick
    requested,    \* history: the sources requested during the current tick, in order
    tickResult,   \* what the last forecast tick returned or raised
    fticks,       \* number of forecast ticks started
    served,       \* history: the source whose data the last successful forecast tick returned, None before
    cconf,        \* per current-conditions coordinator: its kind and location, None before construction
    update_interval,  \* per coordinator: the interval handed to DataUpdateCoordinator, in seconds
    asked_interval,   \* history: per coordinator, the update_interval argument of __init__
    cpc,          \* per coordinator: where its tick is
    cresult,      \* per coordinator: what its last tick returned or raised
    cticks,       \* number of current-conditions ticks started
    cnet,         \* history: per coordinator, the network requests of its current or last tick
    refresh,      \* per coordinator: what started its last tick and when its next scheduled tick is due
    alerts_postal_code, \* alerts: MeteoSwissAlertsAPI.postal_code, set by async_setup_entry
    alerts_session,     \* alerts: MeteoSwissAlertsAPI._session
    apc,          \* alerts coordinator: where its tick is
    aresponse,    \* history: what the warnings API answered to the current or last tick
    adata,        \* alerts coordinator: DataUpdateCoordinator.data, the published snapshot
    aresult,      \* what the last alerts tick returned or raised
    aticks,       \* number of alerts ticks started
    estate,       \* config entry: where async_setup_entry / async_unload_entry is
    esource,      \* config entry: entry.data[CONF_DATA_SOURCE]
    esession,     \* config entry: per coordinator in hass.data, its _session
    eleaked,      \* history: sessions left open on coordinators that were dropped
    esetups,      \* number of async_setup_entry calls started
    stations,     \* station directory: MeteoSwissStationsMap._stations, lower-case id -> station
    loaded,       \* station directory: MeteoSwissStationsMap._loaded
    spc,          \* station directory: where load_stations is
    sresponse,    \* history: what the metadata feed answered to the last request
    sret,         \* what the last load_stations call returned
    srequests,    \* history: number of requests made to the metadata feed
    sloads,       \* number of load_stations calls started
    nearby,       \* the last get_nearby_stations call: its arguments and what it returned
    station_keys, \* station directory: the keys of _stations in the order the dict holds them
    daily,        \* weather entity: the forecast coordinator's data and what async_forecast_daily returned
    cached_data,  \* pollen client: MeteoSwissPollenAPI._cached_data
    pollen,       \* the last get_pollen_data call: its arguments, the pages and what it returned
    open_meteo,   \* the last _fetch_open_meteo_forecast call: the answer, the clock and its outcome
    app,          \* the last _fetch_meteoswiss_app_forecast call: the answer, the clock and its outcome
    csv,          \* a station tick from the download of the readings file on: the answer and its outcome
    plz           \* a postal code and the region codes that the alerts fetch and forecast source 3 query

cacheVars == <<now, cache, hits, misses, evictions, call, ret, nops, lastSet, expiredSeen>>

retryVars ==
    <<max_attempts, base_delay, max_delay, rpc, attempt, last_exception, invocations,
      sleeps, result>>

forecastVars ==
    <<latitude, longitude, forecast_csv_url, post_code, data_source, fpc, upstream,
      requested, tickResult, fticks, served>>

currentVars == <<cconf, update_interval, asked_interval, cpc, cresult, cticks, cnet, refresh>>

alertVars ==
    <<alerts_postal_code, alerts_session, apc, aresponse, adata, aresult, aticks>>

\* the components outside the cache, the retry wrapper and the weather coordinators
entryVars == <<estate, esource, esession, eleaked, esetups>>

stationVars == <<stations, loaded, spc, sresponse, sret, srequests, sloads, nearby,
                 station_keys>>

\* the calls that are checked on their own: each keeps its arguments and its outcome
viewVars == <<daily, cached_data, pollen, open_meteo, app, csv, plz>>

restVars == <<alertVars, entryVars, stationVars, viewVars>>

vars == <<cacheVars, retryVars, forecastVars, currentVars, restVars>>

(***************************************************************************)
(* Python values.                                                          *)
(***************************************************************************)
None == [none |-> TRUE]

\* Python truthiness of the values the model passes around.
EmptyDict == [empty |-> TRUE]

Max(a, b) == IF a >= b THEN a ELSE b

Min(a, b) == IF a <= b THEN a ELSE b

(***************************************************************************)
(* Bounds of the model.                                                    *)
(***************************************************************************)
MaxTime == 3

MaxOps == 4

MaxTtl == 1

MaxForecastTicks == 2

MaxCurrentTicks == 2

(***************************************************************************)
(* cache.py                                                                *)
(***************************************************************************)
\* MeteoSwissCache(default_ttl=300.0)
DefaultTtl == 300

\* the granularity of the clock
TimeStep == DefaultTtl \div 2

\* CacheEntry.is_expired at time t
is_expired(entry, t) == t - entry.timestamp > entry.ttl

\* The cache object as one record, and its write-back.
CacheObj == [cache |-> cache, hits |-> hits, misses |-> misses, evictions |-> evictions]

StoreCacheObj(c) ==
    /\ cache' = c.cache
    /\ hits' = c.hits
    /\ misses' = c.misses
    /\ evictions' = c.evictions

\* dict without one key
DictDel(d, key) == [k \in (DOMAIN d) \ {key} |-> d[k]]

\* dict with d[key] = v
DictPut(d, key, v) == [k \in (DOMAIN d) \cup {key} |-> IF k = key THEN v ELSE d[k]]

\* get with the expired entry left in the dict
get_keeps_expired(c, key, t) ==
    IF key \notin DOMAIN c.cache
    THEN [c |-> [c EXCEPT !.misses = @ + 1], ret |-> None]
    ELSE IF is_expired(c.cache[key], t)
         THEN [c |-> [c EXCEPT !.evictions = @ + 1, !.misses = @ + 1], ret |-> None]
         ELSE [c |-> [c EXCEPT !.hits = @ + 1], ret |-> c.cache[key].value]

\* MeteoSwissCache.get: the new cache object and the returned value
get(c, key, t) ==
    IF key \notin DOMAIN c.cache
    THEN [c |-> [c EXCEPT !.misses = @ + 1], ret |-> None]
    ELSE IF is_expired(c.cache[key], t)
         THEN [c |-> [c EXCEPT !.evictions = @ + 1,
                               !.cache = DictDel(c.cache, key),
                               !.misses = @ + 1],
               ret |-> None]
         ELSE [c |-> [c EXCEPT !.hits = @ + 1], ret |-> c.cache[key].value]

\* An optional number (float | None): None, or Some(n)
Some(n) == [some |-> n]

\* MeteoSwissCache.set; ttl = None takes the default
set(c, key, value, ttl, t) ==
    LET ttl1 == IF ttl = None THEN DefaultTtl ELSE ttl.some
        entry == [key |-> key, value |-> value, timestamp |-> t, ttl |-> ttl1]
    IN [c EXCEPT !.cache = DictPut(c.cache, key, entry)]

\* get_or_set that looks into the store itself: its lookup is not counted
get_or_set_uncounted(c, key, made, ttl, t) ==
    IF key \in DOMAIN c.cache /\ ~is_expired(c.cache[key], t) /\ c.cache[key].value # None
    THEN [c |-> c, ret |-> c.cache[key].value, factoryCalls |-> 0]
    ELSE [c |-> set(c, key, made, ttl, t), ret |-> made, factoryCalls |-> 1]

\* MeteoSwissCache.get_or_set with a factory that returns `made`
get_or_set(c, key, made, ttl, t) ==
    LET g == get(c, key, t)
    IN IF g.ret # None
       THEN [c |-> g.c, ret |-> g.ret, factoryCalls |-> 0]
       ELSE [c |-> set(g.c, key, made, ttl, t), ret |-> made, factoryCalls |-> 1]

\* MeteoSwissCache.invalidate
invalidate(c, key) ==
    IF key \in DOMAIN c.cache THEN [c EXCEPT !.cache = DictDel(c.cache, key)] ELSE c

\* MeteoSwissCache.clear
clear(c) == [c EXCEPT !.cache = <<>>]

\* cleanup_expired that does not count what it removes
cleanup_expired_uncounted(c, t) ==
    LET expired_keys == {k \in DOMAIN c.cache : is_expired(c.cache[k], t)}
    IN [c |-> [c EXCEPT !.cache = [k \in (DOMAIN c.cache) \ expired_keys |-> c.cache[k]]],
        ret |-> Cardinality(expired_keys)]

\* MeteoSwissCache.cleanup_expired: the new cache object and the returned count
cleanup_expired(c, t) ==
    LET expired_keys == {k \in DOMAIN c.cache : is_expired(c.cache[k], t)}
        n == Cardinality(expired_keys)
    IN [c |-> [c EXCEPT !.cache = [k \in (DOMAIN c.cache) \ expired_keys |-> c.cache[k]],
                        !.evictions = IF expired_keys # {} THEN @ + n ELSE @],
        ret |-> n]

\* round(n / d, 0) for n >= 0, d > 0: the nearest whole number, a tie going to
\* the even one
RoundHalfEven(n, d) ==
    LET q == n \div d
        r == n % d
    IN IF 2 * r < d THEN q
       ELSE IF 2 * r > d THEN q + 1
       ELSE IF q % 2 = 0 THEN q ELSE q + 1

\* get_stats that reports the fraction hits / total, not the percentage
get_stats_as_fraction(c) ==
    LET total == c.hits + c.misses
    IN [entries |-> Cardinality(DOMAIN c.cache),
        hits |-> c.hits,
        misses |-> c.misses,
        evictions |-> c.evictions,
        hit_rate |-> IF total > 0 THEN RoundHalfEven(100 * c.hits, total) ELSE 0,
        total_requests |-> total]

\* MeteoSwissCache.get_stats. hit_rate is round(hits / total * 100, 2) counted
\* in hundredths: 3333 is the reported number 33.33
get_stats(c) ==
    LET total == c.hits + c.misses
    IN [entries |-> Cardinality(DOMAIN c.cache),
        hits |-> c.hits,
        misses |-> c.misses,
        evictions |-> c.evictions,
        hit_rate |-> IF total > 0 THEN RoundHalfEven(100 * 100 * c.hits, total) ELSE 0,
        total_requests |-> total]

(***************************************************************************)
(* The inputs of the cache specification and the cache at rest.            *)
(***************************************************************************)
CacheKeys == {<<"k1">>, <<"k2">>}

CacheValues == {[v |-> 1], [v |-> 2]}

CacheTtls == {Some(n * TimeStep) : n \in 1..MaxTtl} \cup {None}

\* what a factory handed to get_or_set returns: a value, or None
FactoryValues == {[v |-> 2], None}

NoSet == [noset |-> TRUE]

\* the entry a set of `key` at the current time leaves in the history
SetRecord(value, ttl) ==
    [value |-> value, t0 |-> now, ttl |-> IF ttl = None THEN DefaultTtl ELSE ttl.some]

CacheIdle ==
    /\ now = 0
    /\ cache = <<>>
    /\ hits = 0
    /\ misses = 0
    /\ evictions = 0
    /\ call = [op |-> "init", key |-> <<>>]
    /\ ret = None
    /\ nops = 0
    /\ lastSet = [k \in CacheKeys |-> NoSet]
    /\ expiredSeen = [k \in CacheKeys |-> FALSE]

(***************************************************************************)
(* The forecast coordinator before its first tick.                         *)
(***************************************************************************)
\* the forecast sources, in the order of the chain
Sources == 1..3

\* a request that ended in an exception
Raised(kind) == [kind |-> "raise", exc |-> kind]

NoTick == [kind |-> "none"]

ForecastIdle ==
    /\ latitude = None
    /\ longitude = None
    /\ forecast_csv_url = None
    /\ post_code = None
    /\ data_source = None
    /\ fpc = "idle"
    /\ upstream = <<Raised("timeout"), Raised("timeout"), Raised("timeout")>>
    /\ requested = <<>>
    /\ tickResult = NoTick
    /\ fticks = 0
    /\ served = None

(***************************************************************************)
(* The current-conditions coordinators before their construction.          *)
(***************************************************************************)
Coords == {"c1", "c2"}

CurrentIdle ==
    /\ cconf = [c \in Coords |-> None]
    /\ update_interval = [c \in Coords |-> 0]
    /\ asked_interval = [c \in Coords |-> 0]
    /\ cpc = [c \in Coords |-> "absent"]
    /\ cresult = [c \in Coords |-> NoTick]
    /\ cticks = 0
    /\ cnet = [c \in Coords |-> <<>>]
    /\ refresh = [c \in Coords |-> [tick |-> "none", due |-> None, count |-> 0]]

(***************************************************************************)
(* The alerts coordinator at rest.                                         *)
(***************************************************************************)
AlertsIdle ==
    /\ alerts_postal_code = None
    /\ alerts_session = None
    /\ apc = "absent"
    /\ aresponse = NoTick
    /\ adata = None
    /\ aresult = NoTick
    /\ aticks = 0

(***************************************************************************)
(* The config entry before its setup.                                      *)
(***************************************************************************)
\* the keys of hass.data[DOMAIN][entry_id] that hold coordinators
CoordinatorKeys ==
    {"coordinator", "forecast_coordinator", "alerts_coordinator", "pollen_coordinator"}

EntryIdle ==
    /\ estate = "not_loaded"
    /\ esource = None
    /\ esession = [k \in CoordinatorKeys |-> "none"]
    /\ eleaked = 0
    /\ esetups = 0

(***************************************************************************)
(* The station directory after MeteoSwissStationsMap().                    *)
(***************************************************************************)
StationsIdle ==
    /\ stations = [k \in {} |-> None]
    /\ loaded = FALSE
    /\ spc = "idle"
    /\ sresponse = NoTick
    /\ sret = NoTick
    /\ srequests = 0
    /\ sloads = 0
    /\ nearby = NoTick
    /\ station_keys = <<>>

\* no call made yet; MeteoSwissPollenAPI.__init__: self._cached_data = {}
ViewIdle ==
    /\ daily = NoTick
    /\ cached_data = [k \in {} |-> None]
    /\ pollen = NoTick
    /\ open_meteo = NoTick
    /\ app = NoTick
    /\ csv = NoTick
    /\ plz = NoTick

RestIdle == AlertsIdle /\ EntryIdle /\ StationsIdle /\ ViewIdle

(***************************************************************************)
(* retry.py: async_retry_with_backoff(max_attempts, base_delay, max_delay)  *)
(* applied to an async function; the wrapper's run is                       *)
(*   start -> await_func -> (sleeping -> await_func)* -> done               *)
(***************************************************************************)
MaxAttempts == 4

\* the least max_attempts a caller passes: below 1 the range of the loop is empty
MinAttempts == 0 - 1

\* delays in tenths of a second
BaseDelays == {5, 10, 30}

MaxDelays == {10, 35, 100}

\* the exceptions a wrapped function raises: asyncio.TimeoutError is caught by the
\* first except clause, every other Exception by the second
ExceptionTypes == {"TimeoutError", "ClientError"}

ReturnValues == {[v |-> 1], None}

NoResult == [kind |-> "running"]

RECURSIVE Pow2(_)
Pow2(n) == IF n <= 0 THEN 1 ELSE 2 * Pow2(n - 1)

\* the delay computed with the exponent one too large
backoff_delay_late(k, base, cap) == Min(base * Pow2(k), cap)

\* delay = min(base_delay * (2 ** (attempt - 1)), max_delay)
backoff_delay(k, base, cap) == Min(base * Pow2(k - 1), cap)

\* the defaults of async_retry_with_backoff; delays in tenths of a second
DefaultMaxAttempts == 4

DefaultBaseDelay == 10

DefaultMaxDelay == 100

RetryIdle ==
    /\ max_attempts = DefaultMaxAttempts
    /\ base_delay = DefaultBaseDelay
    /\ max_delay = DefaultMaxDelay
    /\ rpc = "start"
    /\ attempt = 0
    /\ last_exception = None
    /\ invocations = <<>>
    /\ sleeps = <<>>
    /\ result = NoResult

InitRetry ==
    /\ CacheIdle
    /\ ForecastIdle
    /\ CurrentIdle
    /\ RestIdle
    /\ max_attempts \in MinAttempts..MaxAttempts
    /\ base_delay \in BaseDelays
    /\ max_delay \in MaxDelays
    /\ rpc = "start"
    /\ attempt = 0
    /\ last_exception = None
    /\ invocations = <<>>
    /\ sleeps = <<>>
    /\ result = NoResult

\* a wrapper that makes its first attempt whatever max_attempts is
WrapperEnter_always_attempts ==
    /\ rpc = "start"
    /\ last_exception' = None
    /\ attempt' = 1
    /\ rpc' = "await_func"
    /\ UNCHANGED <<max_attempts, base_delay, max_delay, invocations, sleeps, result>>
    /\ UNCHANGED <<cacheVars, forecastVars, currentVars, restVars>>

\* wrapper: last_exception = None; for attempt in range(1, max_attempts + 1)
\* with an empty range the loop body never runs and the wrapper falls off its end
WrapperEnter ==
    /\ rpc = "start"
    /\ last_exception' = None
    /\ IF max_attempts >= 1
       THEN /\ attempt' = 1
            /\ rpc' = "await_func"
            /\ result' = result
       ELSE /\ attempt' = attempt
            /\ rpc' = "done"
            /\ result' = [kind |-> "return", value |-> None]
    /\ UNCHANGED <<max_attempts, base_delay, max_delay, invocations, sleeps>>
    /\ UNCHANGED <<cacheVars, forecastVars, currentVars, restVars>>

\* the awaited result dropped instead of returned: the loop goes on
FuncReturns_not_returned(value) ==
    /\ rpc = "await_func"
    /\ invocations' = Append(invocations, [kind |-> "return", value |-> value])
    /\ IF attempt < max_attempts
       THEN /\ rpc' = "sleeping"
            /\ result' = result
       ELSE /\ rpc' = "done"
            /\ result' = [kind |-> "return", value |-> None]
    /\ UNCHANGED <<max_attempts, base_delay, max_delay, attempt, last_exception, sleeps>>
    /\ UNCHANGED <<cacheVars, forecastVars, currentVars, restVars>>

\* return await func(...)
FuncReturns(value) ==
    /\ rpc = "await_func"
    /\ invocations' = Append(invocations, [kind |-> "return", value |-> value])
    /\ result' = [kind |-> "return", value |-> value]
    /\ rpc' = "done"
    /\ UNCHANGED <<max_attempts, base_delay, max_delay, attempt, last_exception, sleeps>>
    /\ UNCHANGED <<cacheVars, forecastVars, currentVars, restVars>>

\* what either except clause does with the exception e of this attempt
OnException(e) ==
    /\ invocations' = Append(invocations, [kind |-> "raise", exc |-> e])
    /\ last_exception' = e
    /\ IF attempt < max_attempts
       THEN /\ sleeps' = Append(sleeps, backoff_delay(attempt, base_delay, max_delay))
            /\ rpc' = "sleeping"
            /\ result' = result
       ELSE /\ sleeps' = sleeps
            /\ rpc' = "done"
            /\ result' = [kind |-> "raise", exc |-> e]
    /\ UNCHANGED <<max_attempts, base_delay, max_delay, attempt>>
    /\ UNCHANGED <<cacheVars, forecastVars, currentVars, restVars>>

\* except asyncio.TimeoutError as e
FuncTimesOut ==
    /\ rpc = "await_func"
    /\ OnException([type |-> "TimeoutError", at |-> attempt])

\* except Exception as e
FuncRaises(type) ==
    /\ rpc = "await_func"
    /\ OnException([type |-> type, at |-> attempt])

\* await asyncio.sleep(delay) is over: the next iteration of the loop
SleepDone ==
    /\ rpc = "sleeping"
    /\ attempt' = attempt + 1
    /\ rpc' = "await_func"
    /\ UNCHANGED <<max_attempts, base_delay, max_delay, last_exception, invocations,
                   sleeps, result>>
    /\ UNCHANGED <<cacheVars, forecastVars, currentVars, restVars>>

NextRetry ==
    \/ WrapperEnter
    \/ \E value \in ReturnValues : FuncReturns(value)
    \/ FuncTimesOut
    \/ \E type \in ExceptionTypes \ {"TimeoutError"} : FuncRaises(type)
    \/ SleepDone

SpecRetry == InitRetry /\ [][NextRetry]_vars

\* the event loop runs every pending await to its end
SpecRetryFair == SpecRetry /\ WF_vars(NextRetry)

(***************************************************************************)
(* Strings are records holding a sequence of characters, so that they can  *)
(* be compared with None.                                                  *)
(***************************************************************************)
Str(chars) == [str |-> chars]

\* Python truthiness of an optional string: None and "" are false
Truthy(x) == x # None /\ x.str # <<>>

Digits == {"0", "1", "2", "3", "4", "5", "6", "7", "8", "9"}

\* int(text) does not raise ValueError
IsNumeric(x) == Truthy(x) /\ \A i \in 1..Len(x.str) : x.str[i] \in Digits

LowerChar(ch) ==
    CASE ch = "A" -> "a"
      [] ch = "B" -> "b"
      [] ch = "E" -> "e"
      [] ch = "R" -> "r"
      [] ch = "L" -> "l"
      [] ch = "U" -> "u"
      [] ch = "G" -> "g"
      [] OTHER -> ch

\* str.lower()
Lower(chars) == [i \in 1..Len(chars) |-> LowerChar(chars[i])]

(***************************************************************************)
(* forecast_coordinator.py: MeteoSwissForecastCoordinator                  *)
(* Source 1 is the Open-Meteo API, source 2 the MeteoSwiss CSV feed,       *)
(* source 3 the MeteoSwiss App API.  A tick runs                           *)
(*   idle -> await1 / await2 / await3 -> idle                              *)
(* and is suspended only at the request of a source.                       *)
(***************************************************************************)
SourceName(i) ==
    CASE i = 1 -> Str(<<"open-meteo">>)
      [] i = 2 -> Str(<<"meteoswiss-csv">>)
      [] i = 3 -> Str(<<"meteoswiss-app">>)

\* what a request can end in: an exception, or the parsed list of hourly entries
RaiseKinds == {"timeout", "status", "nodata"}

\* the failures of the request itself: a timeout, a status other than 200
TransientKinds == {"timeout", "status"}

ForecastList(i, n) == [kind |-> "list", data |-> [h \in 1..n |-> [from |-> i, hour |-> h]]]

Answers(i) == {Raised(k) : k \in RaiseKinds} \cup {ForecastList(i, n) : n \in 0..1}

UpdateFailed == [kind |-> "failed"]

Latitudes == {None, Some(0), Some(47)}

Longitudes == {None, Some(8)}

StationIds == {None, Str(<<>>), Str(<<"B", "E", "R">>)}

PostCodes == {None, Str(<<>>), Str(<<"8", "0", "0", "1">>), Str(<<"8", "a">>)}

\* __init__: self._station_id = station_id.lower() if station_id else None
InitStationId(station_id) ==
    IF Truthy(station_id) THEN Str(Lower(station_id.str)) ELSE None

\* __init__: self._forecast_csv_url = f".../{id}/ogd-smn_{id}_t_now.csv" if self._station_id else None
InitForecastCsvUrl(station_id) ==
    LET id == InitStationId(station_id)
    IN IF Truthy(id)
       THEN Str(<<"ogd-smn/">> \o id.str \o <<"/ogd-smn_">> \o id.str \o <<"_t_now.csv">>)
       ELSE None

InitForecast ==
    /\ CacheIdle
    /\ RetryIdle
    /\ CurrentIdle
    /\ RestIdle
    /\ latitude \in Latitudes
    /\ longitude \in Longitudes
    /\ \E station_id \in StationIds : forecast_csv_url = InitForecastCsvUrl(station_id)
    /\ post_code \in PostCodes
    /\ data_source = None
    /\ fpc = "idle"
    /\ upstream = <<Raised("timeout"), Raised("timeout"), Raised("timeout")>>
    /\ requested = <<>>
    /\ tickResult = NoTick
    /\ fticks = 0
    /\ served = None

\* the guards of the three try blocks of _async_update_data
Applicable(i) ==
    CASE i = 1 -> latitude # None /\ longitude # None
      [] i = 2 -> Truthy(forecast_csv_url)
      [] i = 3 -> Truthy(post_code)

\* _fetch_meteoswiss_app_forecast formats the URL with int(self._post_code) before the
\* request: a postal code that is no number raises ValueError and nothing is requested
RaisesBeforeRequest(i) == i = 3 /\ ~IsNumeric(post_code)

\* a source skipped without a request that lets source 3 be requested also when it
\* lacks its postal code
Skipped_ignores_post_code(i) ==
    CASE i = 1 -> ~(latitude # None /\ longitude # None)
      [] i = 2 -> ~Truthy(forecast_csv_url)
      [] i = 3 -> FALSE

\* a source that is passed over without a request
Skipped(i) == ~Applicable(i) \/ RaisesBeforeRequest(i)

\* the first source after `i` that is requested, 4 when there is none
NextRequested(i) ==
    IF \E j \in Sources : j > i /\ ~Skipped(j)
    THEN CHOOSE j \in Sources : j > i /\ ~Skipped(j) /\ \A m \in Sources : (m > i /\ m < j) => Skipped(m)
    ELSE 4

\* the chain ending in an empty forecast instead of raise UpdateFailed
ContinueAfter_returns_empty(i) ==
    LET j == NextRequested(i)
    IN IF j \in Sources
       THEN /\ fpc' = "await"
            /\ requested' = Append(requested, j)
            /\ tickResult' = tickResult
       ELSE /\ fpc' = "idle"
            /\ requested' = requested
            /\ tickResult' = [kind |-> "data", data |-> <<>>]

\* the code that runs from the end of source i's try block up to the next request,
\* or to the final raise UpdateFailed
ContinueAfter(i) ==
    LET j == NextRequested(i)
    IN IF j \in Sources
       THEN /\ fpc' = "await"
            /\ requested' = Append(requested, j)
            /\ tickResult' = tickResult
       ELSE /\ fpc' = "idle"
            /\ requested' = requested
            /\ tickResult' = UpdateFailed

\* the source whose request the tick is waiting for
Awaited == requested[Len(requested)]

\* a tick begins: _async_update_data runs up to its first request
ForecastTickStart ==
    /\ fpc = "idle"
    /\ fticks < MaxForecastTicks
    /\ fticks' = fticks + 1
    /\ \E a1 \in Answers(1), a2 \in Answers(2), a3 \in Answers(3) : upstream' = <<a1, a2, a3>>
    /\ LET j == NextRequested(0)
       IN IF j \in Sources
          THEN /\ fpc' = "await"
               /\ requested' = <<j>>
               /\ tickResult' = NoTick
          ELSE /\ fpc' = "idle"
               /\ requested' = <<>>
               /\ tickResult' = UpdateFailed
    /\ UNCHANGED <<latitude, longitude, forecast_csv_url, post_code, data_source>>
    /\ UNCHANGED <<cacheVars, retryVars, currentVars, restVars>>

\* a source's data returned without recording the source
SourceReturnsData_unrecorded ==
    /\ fpc = "await"
    /\ upstream[Awaited].kind = "list"
    /\ upstream[Awaited].data # <<>>
    /\ tickResult' = [kind |-> "data", data |-> upstream[Awaited].data]
    /\ fpc' = "idle"
    /\ UNCHANGED <<latitude, longitude, forecast_csv_url, post_code, data_source, upstream,
                   requested, fticks>>
    /\ UNCHANGED <<cacheVars, retryVars, currentVars, restVars>>

\* data = await self._fetch_...(); if data: self._data_source = ...; return data
SourceReturnsData ==
    /\ fpc = "await"
    /\ upstream[Awaited].kind = "list"
    /\ upstream[Awaited].data # <<>>
    /\ data_source' = SourceName(Awaited)
    /\ tickResult' = [kind |-> "data", data |-> upstream[Awaited].data]
    /\ fpc' = "idle"
    /\ UNCHANGED <<latitude, longitude, forecast_csv_url, post_code, upstream, requested, fticks>>
    /\ UNCHANGED <<cacheVars, retryVars, currentVars, restVars>>

\* an empty list taken as a result (if data is not None)
SourceReturnsEmpty_accepted ==
    /\ fpc = "await"
    /\ upstream[Awaited].kind = "list"
    /\ upstream[Awaited].data = <<>>
    /\ data_source' = SourceName(Awaited)
    /\ tickResult' = [kind |-> "data", data |-> <<>>]
    /\ fpc' = "idle"
    /\ UNCHANGED <<latitude, longitude, forecast_csv_url, post_code, upstream, requested, fticks>>
    /\ UNCHANGED <<cacheVars, retryVars, currentVars, restVars>>

\* data is an empty list: the if is not taken and the next try block runs
SourceReturnsEmpty ==
    /\ fpc = "await"
    /\ upstream[Awaited].kind = "list"
    /\ upstream[Awaited].data = <<>>
    /\ ContinueAfter(Awaited)
    /\ UNCHANGED <<latitude, longitude, forecast_csv_url, post_code, data_source, upstream, fticks>>
    /\ UNCHANGED <<cacheVars, retryVars, currentVars, restVars>>

\* a chain that forgets the source of the last forecast when it ends without one
SourceRaises_clears_source ==
    /\ fpc = "await"
    /\ upstream[Awaited].kind = "raise"
    /\ ContinueAfter(Awaited)
    /\ data_source' = IF NextRequested(Awaited) \in Sources THEN data_source ELSE None
    /\ UNCHANGED <<latitude, longitude, forecast_csv_url, post_code, upstream, fticks>>
    /\ UNCHANGED <<cacheVars, retryVars, currentVars, restVars>>

\* except Exception as err: logged, and the next try block runs
SourceRaises ==
    /\ fpc = "await"
    /\ upstream[Awaited].kind = "raise"
    /\ ContinueAfter(Awaited)
    /\ UNCHANGED <<latitude, longitude, forecast_csv_url, post_code, data_source, upstream, fticks>>
    /\ UNCHANGED <<cacheVars, retryVars, currentVars, restVars>>

\* the steps of the ticks; a tick that returns data is remembered by the source its
\* entries came from
NextForecast ==
    \/ ForecastTickStart /\ UNCHANGED served
    \/ SourceReturnsData /\ served' = Some(tickResult'.data[1].from)
    \/ SourceReturnsEmpty /\ UNCHANGED served
    \/ SourceRaises /\ UNCHANGED served

SpecForecast == InitForecast /\ [][NextForecast]_vars

(***************************************************************************)
(* Claims about the forecast chain.                                        *)
(***************************************************************************)
\* what source i does in this tick: its answer, or the ValueError of int()
Outcome(i) == IF RaisesBeforeRequest(i) THEN Raised("ValueError") ELSE upstream[i]

YieldsForecast(i) == Outcome(i).kind = "list" /\ Outcome(i).data # <<>>

TickOver == fpc = "idle" /\ fticks > 0

RequestedSet == {requested[k] : k \in 1..Len(requested)}

\* C3: with all three sources applicable, for every combination of raise / empty
\* list / non-empty list of the three, the tick returns exactly the list of the
\* first source (open API, CSV feed, app API) whose outcome is a non-empty list,
\* and at no time is a source after that one requested.
C3_FirstNonEmptyInOrder ==
    (\A i \in Sources : Applicable(i)) =>
        /\ \A i \in Sources :
              (YieldsForecast(i) /\ \A j \in 1..(i - 1) : ~YieldsForecast(j)) =>
                  /\ \A r \in RequestedSet : r <= i
                  /\ TickOver =>
                        /\ tickResult = [kind |-> "data", data |-> Outcome(i).data]
                        /\ tickResult.data[1].from = i
                        /\ i \in RequestedSet
        /\ (TickOver /\ \A i \in Sources : ~YieldsForecast(i)) => tickResult = UpdateFailed

\* C3 witness: all applicable, the open API raised, the CSV feed returned an empty
\* list, the app API a non-empty one, which the tick returned.
C3_Witness ==
    /\ \A i \in Sources : Applicable(i)
    /\ TickOver
    /\ upstream[1].kind = "raise"
    /\ upstream[2] = ForecastList(2, 0)
    /\ upstream[3] = ForecastList(3, 1)
    /\ requested = <<1, 2, 3>>
    /\ tickResult = [kind |-> "data", data |-> ForecastList(3, 1).data]

\* C4: a source whose required input is missing (coordinates, station id, postal
\* code) is never requested, and the tick still succeeds when an applicable source
\* yields a non-empty forecast.
C4_MissingInputSkipped ==
    /\ \A r \in RequestedSet : Applicable(r)
    /\ (TickOver /\ \E j \in Sources : Applicable(j) /\ YieldsForecast(j)) =>
          tickResult.kind = "data"

\* C4 witness: no coordinates and no postal code; the tick requested the CSV feed
\* alone and returned its forecast.
C4_Witness ==
    /\ TickOver
    /\ ~Applicable(1) /\ Applicable(2) /\ ~Applicable(3)
    /\ requested = <<2>>
    /\ tickResult = [kind |-> "data", data |-> ForecastList(2, 1).data]

\* C5: a tick ends in UpdateFailed exactly when every source is inapplicable,
\* raises or returns an empty list; a tick never returns an empty forecast.
C5_FailsIffNoSource ==
    TickOver =>
        /\ tickResult = UpdateFailed <=>
              \A i \in Sources :
                  \/ ~Applicable(i)
                  \/ Outcome(i).kind = "raise"
                  \/ Outcome(i) = [kind |-> "list", data |-> <<>>]
        /\ tickResult.kind \in {"failed", "data"}
        /\ tickResult.kind = "data" => tickResult.data # <<>>

\* C5 witness: source 1 inapplicable, source 2 raised, source 3 returned an empty
\* list: the tick failed.
C5_Witness ==
    /\ TickOver
    /\ ~Applicable(1)
    /\ requested = <<2, 3>>
    /\ upstream[2].kind = "raise"
    /\ upstream[3] = ForecastList(3, 0)
    /\ tickResult = UpdateFailed

\* the number of requests of source i during the current tick
RequestsOf(i) == Cardinality({k \in 1..Len(requested) : requested[k] = i})

\* C8: a transient failure (timeout, non-200 status) of the open API's request is
\* retried per the Retry Policy - the request is made max_attempts times - before
\* the chain falls through to the next source or the tick fails.
C8_TransientFailureRetried ==
    (/\ 1 \in RequestedSet
     /\ upstream[1].kind = "raise"
     /\ upstream[1].exc \in TransientKinds
     /\ (fpc = "idle" \/ Awaited # 1)) =>
        RequestsOf(1) = DefaultMaxAttempts

(***************************************************************************)
(* coordinator.py and openmeteo_coordinator.py: the current-conditions     *)
(* coordinators over the process-wide current-weather cache.  A station    *)
(* tick runs  idle -> await_url -> await_csv -> idle,  an Open-Meteo tick   *)
(* idle -> await_fetch -> idle;  a cache hit ends the tick at once.        *)
(***************************************************************************)
\* const.py
MIN_UPDATE_INTERVAL == 600

\* the interval passed on without the minimum applied
ClampInterval_unclamped(interval) == interval

\* __init__: if update_interval < MIN_UPDATE_INTERVAL: update_interval = MIN_UPDATE_INTERVAL
ClampInterval(interval) ==
    IF interval < MIN_UPDATE_INTERVAL THEN MIN_UPDATE_INTERVAL ELSE interval

DigitChar(d) ==
    CASE d = 0 -> "0" [] d = 1 -> "1" [] d = 2 -> "2" [] d = 3 -> "3" [] d = 4 -> "4"
      [] d = 5 -> "5" [] d = 6 -> "6" [] d = 7 -> "7" [] d = 8 -> "8" [] d = 9 -> "9"

DigitValue(ch) == CHOOSE d \in 0..9 : DigitChar(d) = ch

\* str(n) of a natural number
RECURSIVE NatChars(_)
NatChars(n) == IF n < 10 THEN <<DigitChar(n)>> ELSE NatChars(n \div 10) \o <<DigitChar(n % 10)>>

Abs(x) == IF x < 0 THEN -x ELSE x

\* str(x) of a float with one decimal, x given in tenths: 470 is "47.0", -5 is "-0.5"
FloatChars(x) ==
    (IF x < 0 THEN <<"-">> ELSE <<>>)
        \o NatChars(Abs(x) \div 10) \o <<".">> \o NatChars(Abs(x) % 10)

\* f"station:{self.station_id}"
StationKey(station_id) == <<"s", "t", "a", "t", "i", "o", "n", ":">> \o station_id.str

\* f"openmeteo:{self.latitude},{self.longitude}"
OpenMeteoKey(lat, lon) ==
    <<"o", "p", "e", "n", "m", "e", "t", "e", "o", ":">> \o FloatChars(lat) \o <<",">> \o FloatChars(lon)

\* f"pollen:{self.latitude},{self.longitude}"
PollenKey(lat, lon) ==
    <<"p", "o", "l", "l", "e", "n", ":">> \o FloatChars(lat) \o <<",">> \o FloatChars(lon)

\* every coordinator keyed by its source name alone
CacheKeyOf_without_location(conf) ==
    CASE conf.kind = "station" -> <<"s", "t", "a", "t", "i", "o", "n", ":">>
      [] conf.kind = "openmeteo" -> <<"o", "p", "e", "n", "m", "e", "t", "e", "o", ":">>
      [] conf.kind = "pollen" -> <<"p", "o", "l", "l", "e", "n", ":">>

\* cache_key of a coordinator
CacheKeyOf(conf) ==
    CASE conf.kind = "station" -> StationKey(conf.station_id)
      [] conf.kind = "openmeteo" -> OpenMeteoKey(conf.latitude, conf.longitude)
      [] conf.kind = "pollen" -> PollenKey(conf.latitude, conf.longitude)

\* MeteoSwissDataUpdateCoordinator.__init__: self.station_id = station_id.lower()
StationConf(station_id) == [kind |-> "station", station_id |-> Str(Lower(station_id.str))]

\* OpenMeteoDataUpdateCoordinator.__init__
OpenMeteoConf(lat, lon) == [kind |-> "openmeteo", latitude |-> lat, longitude |-> lon]

\* OpenMeteoPollenCoordinator.__init__
PollenConf(lat, lon) == [kind |-> "pollen", latitude |-> lat, longitude |-> lon]

CurrentStationIds == {Str(<<"B", "E", "R">>), Str(<<"b", "e", "r">>), Str(<<"L", "U", "G">>)}

\* coordinates in tenths of a degree
CoordinatePairs == {<<470, 83>>, <<47, 83>>}

StationConfs == {StationConf(id) : id \in CurrentStationIds}

OpenMeteoConfs == {OpenMeteoConf(p[1], p[2]) : p \in CoordinatePairs}

PollenConfs == {PollenConf(p[1], p[2]) : p \in CoordinatePairs}

AskedIntervals == {60, MIN_UPDATE_INTERVAL, 900}

CurrentKeys == {CacheKeyOf(conf) : conf \in StationConfs \cup OpenMeteoConfs}

\* the number the upstream of a source reports for a location: every source and
\* location has its own, so that a reading tells where it was measured
FeedNumber(conf) ==
    CASE conf = StationConf(Str(<<"b", "e", "r">>)) -> 1
      [] conf = StationConf(Str(<<"l", "u", "g">>)) -> 2
      [] conf = OpenMeteoConf(470, 83) -> 3
      [] conf = OpenMeteoConf(47, 83) -> 4

\* str.strip() of spaces
RECURSIVE StripLeft(_)
StripLeft(chars) ==
    IF chars # <<>> /\ Head(chars) = " " THEN StripLeft(Tail(chars)) ELSE chars

RECURSIVE StripRight(_)
StripRight(chars) ==
    IF chars # <<>> /\ chars[Len(chars)] = " "
    THEN StripRight(SubSeq(chars, 1, Len(chars) - 1))
    ELSE chars

Strip(chars) == StripRight(StripLeft(chars))

RECURSIVE DecimalValue(_)
DecimalValue(chars) ==
    IF chars = <<>> THEN 0
    ELSE 10 * DecimalValue(SubSeq(chars, 1, Len(chars) - 1)) + DigitValue(chars[Len(chars)])

\* the place of the first "." in chars, 0 when there is none
RECURSIVE PointAt(_, _)
PointAt(chars, i) ==
    IF i > Len(chars) THEN 0
    ELSE IF chars[i] = "." THEN i
    ELSE PointAt(chars, i + 1)

AllDigits(chars) == \A i \in 1..Len(chars) : chars[i] \in Digits

\* float(text) of a decimal literal [sign] digits [. digits], in tenths (further
\* decimals dropped): Some(value), or None for the ValueError the caller catches
ParseFloat(chars) ==
    LET t == Strip(chars)
        signed == t # <<>> /\ Head(t) \in {"-", "+"}
        body == IF signed THEN Tail(t) ELSE t
        p == PointAt(body, 1)
        whole == IF p = 0 THEN body ELSE SubSeq(body, 1, p - 1)
        frac == IF p = 0 THEN <<>> ELSE SubSeq(body, p + 1, Len(body))
        magnitude == 10 * DecimalValue(whole)
                        + (IF frac = <<>> THEN 0 ELSE DigitValue(frac[1]))
    IN IF /\ AllDigits(whole)
          /\ AllDigits(frac)
          /\ whole \o frac # <<>>
       THEN Some(IF signed /\ Head(t) = "-" THEN -magnitude ELSE magnitude)
       ELSE None

\* coordinator.py: the parameter ids of the readings file
PARAM_TEMPERATURE == "tre005s0"

PARAM_HUMIDITY == "xchills0"

PARAM_WIND_SPEED == "tde200s0"

PARAM_WIND_DIR == "prestas0"

PARAM_PRESSURE == "pp0qffs0"

\* row.get(param)
RowGet(row, param) == IF param \in DOMAIN row THEN row[param] ELSE None

\* float(text) is an infinity: "inf" or "infinity" in any case, with an optional sign
FloatIsInfinite(chars) ==
    LET t == Strip(chars)
        body == IF t # <<>> /\ Head(t) \in {"-", "+"} THEN Tail(t) ELSE t
    IN body \in {<<"i", "n", "f">>, <<"I", "N", "F">>, <<"I", "n", "f">>,
                 <<"i", "n", "f", "i", "n", "i", "t", "y">>}

Infinity == [inf |-> TRUE]

\* value = row.get(param); if value and value.strip(): try float(value) except ValueError
ParseField(row, param) ==
    LET value == RowGet(row, param)
    IN IF Truthy(value) /\ Strip(value.str) # <<>>
       THEN IF FloatIsInfinite(value.str) THEN Infinity ELSE ParseFloat(value.str)
       ELSE None

\* int(x) of a float given in tenths: the fraction is cut off
IntOfFloat(x) == IF x >= 0 THEN (x \div 10) * 10 ELSE -(((-x) \div 10) * 10)

\* dir_value = row.get(PARAM_WIND_DIR); try int(float(dir_value)) except (ValueError,
\* TypeError): int() of an infinity raises OverflowError, which the clause lets through
ParseWindDirection(row) ==
    LET parsed == ParseField(row, PARAM_WIND_DIR)
    IN IF parsed = Infinity THEN [raise |-> "OverflowError"]
       ELSE IF parsed = None THEN None
       ELSE Some(IntOfFloat(parsed.some))

\* dt = datetime.strptime(timestamp_str, "%d.%m.%Y %H:%M"); dt.isoformat()
ParseTimestamp(row, t) ==
    LET value == RowGet(row, "reference_timestamp")
    IN IF Truthy(value) /\ Strip(value.str) # <<>>
       THEN IF Strip(value.str) = <<"01.01.2025 00:00">>
            THEN Str(<<"2025-01-01T00:00:00">>)
            ELSE [isoformat_of_now |-> t]
       ELSE None

\* MeteoSwissDataUpdateCoordinator._parse_csv_row; an exception that no field's own
\* clause catches reaches `except Exception: return {}`
parse_csv_row(row, t) ==
    LET direction == ParseWindDirection(row)
    IN IF "raise" \in DOMAIN direction
       THEN EmptyDict
       ELSE [temperature |-> ParseField(row, PARAM_TEMPERATURE),
             humidity |-> ParseField(row, PARAM_HUMIDITY),
             wind_speed |-> ParseField(row, PARAM_WIND_SPEED),
             wind_direction |-> direction,
             precipitation |-> None,
             pressure |-> ParseField(row, PARAM_PRESSURE),
             last_update |-> ParseTimestamp(row, t)]

\* the rows a readings file of a location ends with
RowShapes == {"full", "no_params", "blank", "garbage", "temperature_only", "mixed",
              "infinite_direction"}

RowOf(shape, n) ==
    LET number == Str(NatChars(n))
        stamp == Str(<<"01.01.2025 00:00">>)
    IN CASE shape = "full" ->
              [p \in {PARAM_TEMPERATURE, PARAM_HUMIDITY, PARAM_WIND_SPEED, PARAM_WIND_DIR,
                      PARAM_PRESSURE, "reference_timestamp"} |->
                  IF p = "reference_timestamp" THEN stamp ELSE number]
         [] shape = "no_params" ->
              [p \in {"station_abbr", "reference_timestamp", "tre200s0"} |->
                  IF p = "reference_timestamp" THEN stamp ELSE number]
         [] shape = "blank" ->
              [p \in {PARAM_TEMPERATURE, PARAM_HUMIDITY, PARAM_WIND_SPEED, PARAM_WIND_DIR,
                      PARAM_PRESSURE} |-> Str(<<>>)]
         [] shape = "garbage" ->
              [p \in {PARAM_TEMPERATURE, PARAM_HUMIDITY, PARAM_WIND_SPEED, PARAM_WIND_DIR,
                      PARAM_PRESSURE} |-> Str(<<"-">>)]
         [] shape = "temperature_only" ->
              [p \in {PARAM_TEMPERATURE, "reference_timestamp"} |->
                  IF p = "reference_timestamp" THEN stamp ELSE number]
         [] shape = "mixed" ->
              [p \in {PARAM_TEMPERATURE, PARAM_WIND_SPEED, PARAM_WIND_DIR, PARAM_PRESSURE,
                      "reference_timestamp"} |->
                  CASE p = "reference_timestamp" -> stamp
                    [] p = PARAM_WIND_SPEED -> Str(<<>>)
                    [] p = PARAM_WIND_DIR -> Str(<<"-">>)
                    [] OTHER -> number]
         [] shape = "infinite_direction" ->
              [p \in {PARAM_TEMPERATURE, PARAM_HUMIDITY, PARAM_WIND_SPEED, PARAM_WIND_DIR,
                      PARAM_PRESSURE, "reference_timestamp"} |->
                  CASE p = "reference_timestamp" -> stamp
                    [] p = PARAM_WIND_DIR -> Str(<<"i", "n", "f">>)
                    [] OTHER -> number]

\* current.get(name); if value is not None: float(value)
\* Some(x) for a number, None for null or a missing field, "raise" for a text that
\* float() rejects
JsonField(current, name) ==
    LET value == RowGet(current, name)
    IN IF value = None THEN None
       ELSE IF "some" \in DOMAIN value THEN value
       ELSE IF ParseFloat(value.str) # None THEN ParseFloat(value.str)
       ELSE [raise |-> "ValueError"]

\* OpenMeteoDataUpdateCoordinator.get_weather_condition, for the codes the model draws
get_weather_condition(code) ==
    IF code = None THEN Str(<<"unknown">>)
    ELSE IF code = Some(0) THEN Str(<<"clear">>)
    ELSE Str(<<"unknown">>)

\* OpenMeteoDataUpdateCoordinator.get_weather_description, for the codes the model draws
get_weather_description(code) ==
    IF code = None THEN Str(<<"Unknown">>)
    ELSE IF code = Some(0) THEN Str(<<"Clear sky">>)
    ELSE Str(<<"Unknown">>)

\* OpenMeteoDataUpdateCoordinator._parse_response of a response without "hourly":
\* an exception anywhere in it gives {}
parse_response(data) ==
    LET current == RowGet(data, "current")
        cur == IF current = None THEN <<>> ELSE current.dict
        fields == [f \in {"temperature_2m", "relative_humidity_2m", "wind_speed_10m",
                          "wind_direction_10m", "pressure_msl"} |-> JsonField(cur, f)]
        time == RowGet(cur, "time")
    IN IF \E f \in DOMAIN fields : fields[f] = [raise |-> "ValueError"]
       THEN EmptyDict
       ELSE [temperature |-> fields["temperature_2m"],
             humidity |-> fields["relative_humidity_2m"],
             wind_speed |-> fields["wind_speed_10m"],
             wind_direction |-> fields["wind_direction_10m"],
             precipitation |-> None,
             pressure |-> fields["pressure_msl"],
             weather_code |-> RowGet(cur, "weather_code"),
             weather_condition |-> get_weather_condition(RowGet(cur, "weather_code")),
             weather_description |-> get_weather_description(RowGet(cur, "weather_code")),
             last_update |-> IF Truthy(time) THEN time ELSE None,
             hourly_forecast |-> <<>>]

\* the JSON documents the open API answers with for a location (numbers in tenths)
ResponseShapes == {"full", "no_current", "nulls", "text", "temperature_only"}

ResponseOf(shape, n) ==
    LET stamp == Str(<<"2025-01-01T00:00">>)
        names == {"temperature_2m", "relative_humidity_2m", "wind_speed_10m",
                  "wind_direction_10m", "pressure_msl"}
    IN CASE shape = "full" ->
              [k \in {"current"} |->
                  [dict |-> [f \in names \cup {"time", "weather_code"} |->
                      IF f = "time" THEN stamp ELSE IF f = "weather_code" THEN Some(0) ELSE Some(10 * n)]]]
         [] shape = "no_current" -> [k \in {"latitude"} |-> Some(n)]
         [] shape = "nulls" -> [k \in {"current"} |-> [dict |-> [f \in names |-> None]]]
         [] shape = "text" ->
              [k \in {"current"} |-> [dict |-> [f \in names |-> Str(<<"n", "/", "a">>)]]]
         [] shape = "temperature_only" ->
              [k \in {"current"} |-> [dict |-> [f \in {"temperature_2m", "time"} |->
                      IF f = "time" THEN stamp ELSE Some(10 * n)]]]

\* the reading fields the sensors publish
ReadingFields == {"temperature", "humidity", "wind_speed", "wind_direction", "pressure"}

InitCurrent ==
    /\ RetryIdle
    /\ ForecastIdle
    /\ CurrentIdle
    /\ RestIdle
    /\ now = 0
    /\ cache = <<>>
    /\ hits = 0
    /\ misses = 0
    /\ evictions = 0
    /\ call = [op |-> "init", key |-> <<>>]
    /\ ret = None
    /\ nops = 0
    /\ lastSet = [k \in CurrentKeys |-> NoSet]
    /\ expiredSeen = [k \in CurrentKeys |-> FALSE]

\* MeteoSwissDataUpdateCoordinator(hass, station_id, update_interval)
ConstructStation(c, station_id, interval) ==
    /\ cpc[c] = "absent"
    /\ cconf' = [cconf EXCEPT ![c] = StationConf(station_id)]
    /\ asked_interval' = [asked_interval EXCEPT ![c] = interval]
    /\ update_interval' = [update_interval EXCEPT ![c] = ClampInterval(interval)]
    /\ cpc' = [cpc EXCEPT ![c] = "idle"]
    /\ UNCHANGED <<cresult, cticks, cnet>>
    /\ UNCHANGED <<cacheVars, retryVars, forecastVars, restVars>>

\* OpenMeteoDataUpdateCoordinator(hass, latitude, longitude, update_interval)
ConstructOpenMeteo(c, lat, lon, interval) ==
    /\ cpc[c] = "absent"
    /\ cconf' = [cconf EXCEPT ![c] = OpenMeteoConf(lat, lon)]
    /\ asked_interval' = [asked_interval EXCEPT ![c] = interval]
    /\ update_interval' = [update_interval EXCEPT ![c] = ClampInterval(interval)]
    /\ cpc' = [cpc EXCEPT ![c] = "idle"]
    /\ UNCHANGED <<cresult, cticks, cnet>>
    /\ UNCHANGED <<cacheVars, retryVars, forecastVars, restVars>>

\* time passes between the steps of the coordinators, one default TTL at a time:
\* an entry is still fresh one TTL after its set and expired two TTLs after it
CurrentClock ==
    /\ now < 2 * DefaultTtl
    /\ now' = now + DefaultTtl
    /\ UNCHANGED <<cache, hits, misses, evictions, call, ret, nops, lastSet, expiredSeen>>
    /\ UNCHANGED <<cconf, update_interval, asked_interval, cpc, cresult, cticks, cnet>>
    /\ UNCHANGED <<retryVars, forecastVars, restVars>>

\* a tick that goes to its upstream whatever the cache holds
CurrentTickStart_ignores_cache(c) ==
    /\ cpc[c] = "idle"
    /\ cticks < MaxCurrentTicks
    /\ cticks' = cticks + 1
    /\ cresult' = [cresult EXCEPT ![c] = [kind |-> "running"]]
    /\ cpc' = [cpc EXCEPT ![c] =
                  IF cconf[c].kind = "station" THEN "await_url" ELSE "await_fetch"]
    /\ cnet' = [cnet EXCEPT ![c] =
                  IF cconf[c].kind = "station" THEN <<"stac">> ELSE <<"api">>]
    /\ UNCHANGED <<cacheVars, retryVars, forecastVars, restVars>>
    /\ UNCHANGED <<cconf, update_interval, asked_interval>>

\* _async_update_data up to its first await: cached_data = cache.get(cache_key)
CurrentTickStart(c) ==
    /\ cpc[c] = "idle"
    /\ cticks < MaxCurrentTicks
    /\ cticks' = cticks + 1
    /\ LET g == get(CacheObj, CacheKeyOf(cconf[c]), now)
       IN /\ StoreCacheObj(g.c)
          /\ IF g.ret # None
             THEN /\ cresult' = [cresult EXCEPT ![c] =
                                    [kind |-> "data", value |-> g.ret, from |-> "cache"]]
                  /\ cpc' = cpc
                  /\ cnet' = [cnet EXCEPT ![c] = <<>>]
             ELSE /\ cresult' = [cresult EXCEPT ![c] = [kind |-> "running"]]
                  /\ cpc' = [cpc EXCEPT ![c] =
                                IF cconf[c].kind = "station" THEN "await_url" ELSE "await_fetch"]
                  /\ cnet' = [cnet EXCEPT ![c] =
                                IF cconf[c].kind = "station" THEN <<"stac">> ELSE <<"api">>]
    /\ UNCHANGED <<now, call, ret, nops, lastSet, expiredSeen>>
    /\ UNCHANGED <<cconf, update_interval, asked_interval>>
    /\ UNCHANGED <<retryVars, forecastVars, restVars>>

\* csv_url = await self._async_get_station_data_url(): None for a status other than 200,
\* a missing asset or an exception
StationUrlDone(c, found) ==
    /\ cpc[c] = "await_url"
    /\ IF found
       THEN /\ cpc' = [cpc EXCEPT ![c] = "await_csv"]
            /\ cresult' = cresult
            /\ cnet' = [cnet EXCEPT ![c] = Append(@, "csv")]
       ELSE /\ cpc' = [cpc EXCEPT ![c] = "idle"]
            /\ cresult' = [cresult EXCEPT ![c] = UpdateFailed]
            /\ cnet' = cnet
    /\ UNCHANGED <<cconf, update_interval, asked_interval, cticks>>
    /\ UNCHANGED <<cacheVars, retryVars, forecastVars, restVars>>

\* the end of a tick that fetched `data`: the checks, then cache.set(cache_key, data)
FinishTick(c, data) ==
    IF data = None \/ data = EmptyDict
    THEN /\ cresult' = [cresult EXCEPT ![c] = UpdateFailed]
         /\ UNCHANGED <<cache, hits, misses, evictions, lastSet>>
    ELSE /\ cresult' = [cresult EXCEPT ![c] = [kind |-> "data", value |-> data, from |-> "fetch"]]
         /\ StoreCacheObj(set(CacheObj, CacheKeyOf(cconf[c]), data, None, now))
         /\ lastSet' = [lastSet EXCEPT ![CacheKeyOf(cconf[c])] = SetRecord(data, None)]

\* parsed_data = await self._async_download_and_parse_csv(csv_url): None when the download
\* or the split into lines fails, else _parse_csv_row of the last row
StationCsvDone(c, downloaded, shape) ==
    /\ cpc[c] = "await_csv"
    /\ FinishTick(c, IF downloaded
                     THEN parse_csv_row(RowOf(shape, FeedNumber(cconf[c])), now)
                     ELSE None)
    /\ cpc' = [cpc EXCEPT ![c] = "idle"]
    /\ UNCHANGED <<now, call, ret, nops, expiredSeen>>
    /\ UNCHANGED <<cconf, update_interval, asked_interval, cticks, cnet>>
    /\ UNCHANGED <<retryVars, forecastVars, restVars>>

\* data = await self._async_fetch_data(): None for a status other than 200 or an
\* exception, else _parse_response of the JSON document
OpenMeteoFetchDone(c, answered, shape) ==
    /\ cpc[c] = "await_fetch"
    /\ FinishTick(c, IF answered
                     THEN parse_response(ResponseOf(shape, FeedNumber(cconf[c])))
                     ELSE None)
    /\ cpc' = [cpc EXCEPT ![c] = "idle"]
    /\ UNCHANGED <<now, call, ret, nops, expiredSeen>>
    /\ UNCHANGED <<cconf, update_interval, asked_interval, cticks, cnet>>
    /\ UNCHANGED <<retryVars, forecastVars, restVars>>

\* the ticks of the coordinators started at any time, whatever starts them
NextCurrent ==
    \/ \E c \in Coords, id \in CurrentStationIds, interval \in AskedIntervals :
          ConstructStation(c, id, interval) /\ UNCHANGED refresh
    \/ \E c \in Coords, p \in CoordinatePairs, interval \in AskedIntervals :
          ConstructOpenMeteo(c, p[1], p[2], interval) /\ UNCHANGED refresh
    \/ CurrentClock /\ UNCHANGED refresh
    \/ \E c \in Coords : CurrentTickStart(c) /\ UNCHANGED refresh
    \/ \E c \in Coords, found \in BOOLEAN : StationUrlDone(c, found) /\ UNCHANGED refresh
    \/ \E c \in Coords, downloaded \in BOOLEAN, shape \in RowShapes :
          StationCsvDone(c, downloaded, shape) /\ UNCHANGED refresh
    \/ \E c \in Coords, answered \in BOOLEAN, shape \in ResponseShapes :
          OpenMeteoFetchDone(c, answered, shape) /\ UNCHANGED refresh

SpecCurrent == InitCurrent /\ [][NextCurrent]_vars

(***************************************************************************)
(* Claims about the current-conditions coordinators.                       *)
(***************************************************************************)
AllConfs == StationConfs \cup OpenMeteoConfs \cup PollenConfs

\* every reading field of `value` that is present carries the number of `conf`'s
\* feed (readings are in tenths)
MeasuredAt(conf, value) ==
    \A f \in ReadingFields : value[f] \in {None, Some(10 * FeedNumber(conf))}

KeysNeverCoincide ==
    \A a, b \in AllConfs : CacheKeyOf(a) = CacheKeyOf(b) => a = b

ReadingsStayWithTheirKey ==
    /\ \A c \in Coords :
          cresult[c].kind = "data" => MeasuredAt(cconf[c], cresult[c].value)
    /\ \A k \in DOMAIN cache :
          \A conf \in StationConfs \cup OpenMeteoConfs :
             CacheKeyOf(conf) = k => MeasuredAt(conf, cache[k].value)

HitReturnsLastSet ==
    \A c \in Coords :
       (/\ cresult'[c] # cresult[c]
        /\ cresult'[c].kind = "data"
        /\ cresult'[c].from = "cache")
       => /\ lastSet[CacheKeyOf(cconf[c])] # NoSet
          /\ cresult'[c].value = lastSet[CacheKeyOf(cconf[c])].value

\* C2: the keys of different sources or locations never coincide, a coordinator
\* never returns and the cache never holds under its key a reading measured for
\* another source or location, and a tick served from the cache returns the value
\* of the most recent set of the coordinator's own key.
C2_CacheKeyIsolation ==
    /\ [](KeysNeverCoincide /\ ReadingsStayWithTheirKey)
    /\ [][HitReturnsLastSet]_vars

\* one coordinator's reading is in the cache, and the tick of a coordinator of the
\* same source for another location has missed and gone to its upstream
C2_Witness ==
    \E c, d \in Coords :
       /\ cpc[c] = "idle"
       /\ cresult[c].kind = "data"
       /\ CacheKeyOf(cconf[c]) \in DOMAIN cache
       /\ cpc[d] \in {"await_url", "await_fetch"}
       /\ cconf[d].kind = cconf[c].kind
       /\ cconf[d] # cconf[c]

\* C9: every constructed current-conditions coordinator, of the station network
\* or of the open API, polls every max(update_interval, 600) seconds; asked for
\* 60 it polls every 600.
C9_EffectiveInterval ==
    \A c \in Coords :
       cpc[c] # "absent" =>
          /\ update_interval[c] = Max(asked_interval[c], 600)
          /\ asked_interval[c] = 60 => update_interval[c] = 600

\* a station coordinator and an open-API coordinator, both asked for 60 seconds
C9_Witness ==
    \E c, d \in Coords :
       /\ cpc[c] # "absent" /\ cconf[c].kind = "station"
       /\ cpc[d] # "absent" /\ cconf[d].kind = "openmeteo"
       /\ asked_interval[c] = 60 /\ update_interval[c] = 600
       /\ asked_interval[d] = 60 /\ update_interval[d] = 600

AllAbsent(value) == \A f \in ReadingFields : value[f] = None

\* C10: no tick publishes, and the cache never holds, a snapshot in which
\* temperature, humidity, wind speed, wind direction and pressure are all absent.
C10_AllAbsentNeverPublished ==
    /\ \A c \in Coords : cresult[c].kind = "data" => ~AllAbsent(cresult[c].value)
    /\ \A k \in DOMAIN cache : ~AllAbsent(cache[k].value)

\* the column of the readings file a reading field is parsed from
ParamOf(field) ==
    CASE field = "temperature" -> PARAM_TEMPERATURE
      [] field = "humidity" -> PARAM_HUMIDITY
      [] field = "wind_speed" -> PARAM_WIND_SPEED
      [] field = "wind_direction" -> PARAM_WIND_DIR
      [] field = "pressure" -> PARAM_PRESSURE

\* the raw value of `field` in `row` is there, is not empty and reads as a decimal number
RawIsNumber(row, field) ==
    /\ ParamOf(field) \in DOMAIN row
    /\ Strip(row[ParamOf(field)].str) # <<>>
    /\ ParseFloat(row[ParamOf(field)].str) # None

\* what `field` is reported as when only its own raw value decides
FieldAlone(row, field) ==
    IF RawIsNumber(row, field)
    THEN IF field = "wind_direction"
         THEN Some(IntOfFloat(ParseFloat(row[ParamOf(field)].str).some))
         ELSE ParseFloat(row[ParamOf(field)].str)
    ELSE None

\* C26: when the readings file of a station is downloaded and its last row has at
\* least one field that reads as a number, the tick succeeds and publishes every field
\* as its own raw value decides: absent when that value is missing, empty or not a
\* number, the parsed number otherwise.
C26_FieldsParsedIndependently ==
    [][\A c \in Coords, shape \in RowShapes :
          LET row == RowOf(shape, FeedNumber(cconf[c]))
          IN (StationCsvDone(c, TRUE, shape) /\ \E f \in ReadingFields : RawIsNumber(row, f))
                => /\ cresult'[c].kind = "data"
                   /\ \A f \in ReadingFields : cresult'[c].value[f] = FieldAlone(row, f)]_vars

\* the same for the rows in which no raw value is an infinity
C26_HoldsForFiniteRows ==
    [][\A c \in Coords, shape \in RowShapes \ {"infinite_direction"} :
          LET row == RowOf(shape, FeedNumber(cconf[c]))
          IN (StationCsvDone(c, TRUE, shape) /\ \E f \in ReadingFields : RawIsNumber(row, f))
                => /\ cresult'[c].kind = "data"
                   /\ \A f \in ReadingFields : cresult'[c].value[f] = FieldAlone(row, f)]_vars

\* a tick published a reading in which some fields are present and others absent
PartialReadingPublished ==
    \E c \in Coords :
       /\ cresult[c].kind = "data" /\ cresult[c].from = "fetch"
       /\ cresult[c].value.temperature # None
       /\ cresult[c].value.wind_speed = None
       /\ cresult[c].value.pressure # None

\* the cache holds an unexpired entry under the key of coordinator c
FreshEntry(c) ==
    /\ cpc[c] # "absent"
    /\ CacheKeyOf(cconf[c]) \in DOMAIN cache
    /\ ~is_expired(cache[CacheKeyOf(cconf[c])], now)

HitServedFromCache ==
    \A c \in Coords :
       (FreshEntry(c) /\ CurrentTickStart(c))
       => /\ cresult'[c] = [kind |-> "data",
                            value |-> cache[CacheKeyOf(cconf[c])].value,
                            from |-> "cache"]
          /\ cpc'[c] = "idle"
          /\ cnet'[c] = <<>>

\* C11: a tick that starts while the cache holds an unexpired entry under the
\* coordinator's key returns exactly that entry's reading and ends at once; a tick
\* served from the cache has made no network request, neither the asset discovery
\* nor the download nor the open-API call.
C11_CacheHitNoNetwork ==
    /\ [][HitServedFromCache]_vars
    /\ [](\A c \in Coords :
            (cresult[c].kind = "data" /\ cresult[c].from = "cache") => cnet[c] = <<>>)

\* the second tick was served from the entry the first tick stored
C11_Witness ==
    \E c \in Coords :
       /\ cticks = 2
       /\ cresult[c].kind = "data"
       /\ cresult[c].from = "cache"
       /\ cnet[c] = <<>>
       /\ hits = 1
       /\ FreshEntry(c)

\* the step ends the tick of coordinator c
TickEnds(c) == cpc[c] \in {"await_url", "await_csv", "await_fetch"} /\ cpc'[c] = "idle"

NoOtherCoordinatorShares(c) ==
    \A d \in Coords \ {c} : cconf[d] # cconf[c]

SuccessIsStored ==
    \A c \in Coords :
       (TickEnds(c) /\ cresult'[c].kind = "data")
       => /\ CacheKeyOf(cconf[c]) \in DOMAIN cache'
          /\ cache'[CacheKeyOf(cconf[c])].value = cresult'[c].value
          /\ ~is_expired(cache'[CacheKeyOf(cconf[c])], now')

FailureIsNotStored ==
    \A c \in Coords :
       (TickEnds(c) /\ cresult'[c] = UpdateFailed)
       => /\ cache' = cache
          /\ NoOtherCoordinatorShares(c) => CacheKeyOf(cconf[c]) \notin DOMAIN cache'

\* What holds of every step that ends a tick: a success has stored the reading it
\* returns under its own key, unexpired; a failure leaves the cache exactly as it
\* was, and with no other coordinator on the same key the key is then absent.
WriteThroughOnSuccessOnly == [][SuccessIsStored /\ FailureIsNotStored]_vars

\* one coordinator's tick has failed and left its key absent, another's has
\* succeeded and its reading is in the cache under its key
WriteThroughSeen ==
    \E c, d \in Coords :
       /\ cpc[c] = "idle" /\ cresult[c] = UpdateFailed
       /\ CacheKeyOf(cconf[c]) \notin DOMAIN cache
       /\ cpc[d] = "idle" /\ cresult[d].kind = "data" /\ cresult[d].from = "fetch"
       /\ CacheKeyOf(cconf[d]) \in DOMAIN cache
       /\ cache[CacheKeyOf(cconf[d])].value = cresult[d].value

\* C12: a tick that succeeds after a miss has stored the reading it returns under
\* its own key before it returns; a tick that fails writes nothing to the cache,
\* and right after a failed tick the coordinator's key is absent from the cache.
C12_FailedTickLeavesKeyAbsent ==
    [][/\ SuccessIsStored
       /\ \A c \in Coords :
             (TickEnds(c) /\ cresult'[c] = UpdateFailed)
             => /\ cache' = cache
                /\ CacheKeyOf(cconf[c]) \notin DOMAIN cache']_vars

(***************************************************************************)
(* alerts.py and binary_sensor.py: the warnings API client and the alerts  *)
(* coordinator.  A JSON object is a function from the names of its fields  *)
(* to their values, a JSON list is [list |-> sequence], a JSON object used  *)
(* as a value is [obj |-> function].  Timestamps are Unix milliseconds and *)
(* a datetime is kept as the milliseconds it was made from.                *)
(***************************************************************************)
MaxAlertTicks == 2

\* str(n) of an integer
IntChars(n) == IF n < 0 THEN <<"-">> \o NatChars(-n) ELSE NatChars(n)

\* d.get(name, default)
JsonGet(d, name, default) == IF name \in DOMAIN d THEN d[name] ELSE default

\* MeteoSwissAlertsAPI._get_warn_type_name
get_warn_type_name(warn_type) ==
    CASE warn_type = 1 -> Str(<<"Thunderstorm">>)
      [] warn_type = 2 -> Str(<<"Rain">>)
      [] warn_type = 3 -> Str(<<"Snow">>)
      [] warn_type = 4 -> Str(<<"Wind">>)
      [] warn_type = 10 -> Str(<<"Forest Fire">>)
      [] warn_type = 11 -> Str(<<"Flood">>)
      [] OTHER -> Str(<<"Unknown (">> \o IntChars(warn_type) \o <<")">>)

\* MeteoSwissAlertsAPI._get_warn_level_name
get_warn_level_name(warn_level) ==
    CASE warn_level = 1 -> Str(<<"Level 1 - No/minor danger">>)
      [] warn_level = 2 -> Str(<<"Level 2 - Moderate danger">>)
      [] warn_level = 3 -> Str(<<"Level 3 - Significant danger">>)
      [] warn_level = 4 -> Str(<<"Level 4 - High danger">>)
      [] warn_level = 5 -> Str(<<"Level 5 - Very high danger">>)
      [] OTHER -> Str(<<"Level ">> \o IntChars(warn_level))

\* f"{postal_code}": the text of a string, "None" for None
FormatStr(x) == IF x = None THEN <<"N", "o", "n", "e">> ELSE x.str

\* the id without the warning type
alert_id_without_type(postal_code, warn_level, warn_type, valid_from_ts) ==
    FormatStr(postal_code) \o <<"_">> \o IntChars(warn_level)
        \o <<"_">> \o (IF valid_from_ts # 0 THEN IntChars(valid_from_ts) ELSE <<"n", "o", "w">>)

\* f"{postal_code}_{warn_level}_{warn_type}_{valid_from_ts if valid_from_ts else 'now'}"
alert_id_of(postal_code, warn_level, warn_type, valid_from_ts) ==
    FormatStr(postal_code) \o <<"_">> \o IntChars(warn_level) \o <<"_">> \o IntChars(warn_type)
        \o <<"_">> \o (IF valid_from_ts # 0 THEN IntChars(valid_from_ts) ELSE <<"n", "o", "w">>)

\* MeteoSwissAlertsAPI._parse_single_alert for a warning whose fields have the types
\* of the API (integers, a boolean, a text); .get("validFrom") of a missing field is
\* None, which `if valid_from_ts:` treats as it treats 0
parse_single_alert(warning_data, postal_code) ==
    LET warn_level == JsonGet(warning_data, "warnLevel", 0)
        warn_type == JsonGet(warning_data, "warnType", 0)
        valid_from_ts == JsonGet(warning_data, "validFrom", 0)
        valid_to_ts == JsonGet(warning_data, "validTo", 0)
    IN [alert_id |-> alert_id_of(postal_code, warn_level, warn_type, valid_from_ts),
        warn_type |-> warn_type,
        warn_type_name |-> get_warn_type_name(warn_type),
        warn_level |-> warn_level,
        warn_level_name |-> get_warn_level_name(warn_level),
        title |-> <<get_warn_type_name(warn_type), get_warn_level_name(warn_level)>>,
        description |-> JsonGet(warning_data, "text", Str(<<>>)),
        valid_from |-> IF valid_from_ts # 0 THEN Some(valid_from_ts) ELSE None,
        valid_to |-> IF valid_to_ts # 0 THEN Some(valid_to_ts) ELSE None,
        outlook |-> JsonGet(warning_data, "outlook", FALSE)]

IsJsonList(x) == "list" \in DOMAIN x

IsJsonObject(x) == "obj" \in DOMAIN x

\* `not x` of a JSON value: an empty list, an empty object or an empty text
JsonFalsy(x) ==
    \/ IsJsonList(x) /\ x.list = <<>>
    \/ IsJsonObject(x) /\ DOMAIN x.obj = {}
    \/ "str" \in DOMAIN x /\ x.str = <<>>

RECURSIVE ParseEach(_, _)
ParseEach(warnings, postal_code) ==
    IF warnings = <<>> THEN <<>>
    ELSE (IF IsJsonObject(Head(warnings))
          THEN <<parse_single_alert(Head(warnings).obj, postal_code)>>
          ELSE <<>>) \o ParseEach(Tail(warnings), postal_code)

\* _parse_alerts with a single object taken for an unexpected format
parse_alerts_list_only(data, postal_code) ==
    IF "warnings" \notin DOMAIN data THEN <<>>
    ELSE IF JsonFalsy(data["warnings"]) THEN <<>>
    ELSE IF IsJsonList(data["warnings"]) THEN ParseEach(data["warnings"].list, postal_code)
    ELSE <<>>

\* MeteoSwissAlertsAPI._parse_alerts
parse_alerts(data, postal_code) ==
    IF "warnings" \notin DOMAIN data THEN <<>>
    ELSE IF JsonFalsy(data["warnings"]) THEN <<>>
    ELSE IF IsJsonList(data["warnings"]) THEN ParseEach(data["warnings"].list, postal_code)
    ELSE IF IsJsonObject(data["warnings"])
         THEN <<parse_single_alert(data["warnings"].obj, postal_code)>>
    ELSE <<>>

\* what a call returns
Returns(value) == [returns |-> value]

\* WeatherAlert.is_active at time t (milliseconds): the boolean it returns, or the
\* TypeError of comparing None with a datetime
is_active(alert, t) ==
    IF alert.outlook THEN Returns(FALSE)
    ELSE IF alert.valid_to = None THEN Returns(TRUE)
    ELSE IF alert.valid_from = None THEN Raised("TypeError")
    ELSE Returns(alert.valid_from.some <= t /\ t <= alert.valid_to.some)

\* WeatherAlert.is_critical
is_critical(alert) == alert.warn_level >= 3

\* datetime.now(), as milliseconds
NowMs == now * 1000

\* the warning objects of the API: every field present or missing
AbsentField == [absent |-> TRUE]

WarningOf(level, type, from, to, outlook) ==
    LET given == [warnLevel |-> level, warnType |-> type, validFrom |-> from,
                  validTo |-> to, outlook |-> outlook]
    IN [f \in {n \in DOMAIN given : given[n] # AbsentField} |-> given[f].some]

WarningLevels == {AbsentField, Some(3)}

WarningTypes == {AbsentField, Some(1)}

ValidFroms == {AbsentField, Some(0), Some(TimeStep * 1000)}

ValidTos == {AbsentField, Some(2 * TimeStep * 1000)}

Outlooks == {AbsentField, Some(TRUE)}

Warnings ==
    {WarningOf(l, t, f, u, o) :
        l \in WarningLevels, t \in WarningTypes, f \in ValidFroms, u \in ValidTos, o \in Outlooks}

\* the warnings that come in pairs: no end and no outlook flag
PairedWarnings ==
    {WarningOf(l, t, f, AbsentField, AbsentField) :
        l \in WarningLevels, t \in WarningTypes, f \in ValidFroms}

\* the values of the field "warnings"
WarningsFields ==
    {[obj |-> w] : w \in Warnings}
        \cup {[list |-> <<[obj |-> w]>>] : w \in Warnings}
        \cup {[list |-> <<[obj |-> w1], [obj |-> w2]>>] : w1 \in PairedWarnings, w2 \in PairedWarnings}
        \cup {[list |-> <<>>], Str(<<"n", "o", "n", "e">>)}

\* the JSON documents of the warnings API
AlertPayloads ==
    {[n \in {"warnings"} |-> w] : w \in WarningsFields} \cup {[n \in {"plz"} |-> Str(<<"8001">>)]}

\* what the warnings API can answer
AlertAnswers ==
    {[kind |-> "status"], [kind |-> "client_error"], [kind |-> "exception"]}
        \cup {[kind |-> "json", data |-> d] : d \in AlertPayloads}

AlertPostalCodes == {Str(<<"8", "0", "0", "1">>), None}

InitAlerts ==
    /\ CacheIdle
    /\ RetryIdle
    /\ ForecastIdle
    /\ CurrentIdle
    /\ AlertsIdle
    /\ EntryIdle
    /\ StationsIdle
    /\ ViewIdle

\* async_setup_entry: alerts_api = MeteoSwissAlertsAPI(session=None);
\* alerts_api.postal_code = post_code; MeteoSwissAlertsCoordinator(hass, alerts_api)
AlertsConstruct(postal_code) ==
    /\ apc = "absent"
    /\ alerts_postal_code' = postal_code
    /\ alerts_session' = None
    /\ apc' = "idle"
    /\ UNCHANGED <<aresponse, adata, aresult, aticks>>
    /\ UNCHANGED <<cacheVars, retryVars, forecastVars, currentVars, entryVars, stationVars, viewVars>>

\* time passes between the ticks
AlertsClock ==
    /\ apc = "idle"
    /\ now < MaxTime * TimeStep
    /\ now' = now + TimeStep
    /\ UNCHANGED <<cache, hits, misses, evictions, call, ret, nops, lastSet, expiredSeen>>
    /\ UNCHANGED <<retryVars, forecastVars, currentVars, alertVars, entryVars, stationVars, viewVars>>

\* _async_update_data, get_alerts up to the request: the session is made on first use
AlertsTickStart ==
    /\ apc = "idle"
    /\ aticks < MaxAlertTicks
    /\ aticks' = aticks + 1
    /\ alerts_session' = [open |-> TRUE]
    /\ apc' = "await_get"
    /\ aresponse' = NoTick
    /\ aresult' = [kind |-> "running"]
    /\ UNCHANGED <<alerts_postal_code, adata>>
    /\ UNCHANGED <<cacheVars, retryVars, forecastVars, currentVars, entryVars, stationVars, viewVars>>

\* what get_alerts returns for an answer: [] for a status other than 200, for a
\* ClientError and for any other exception
get_alerts_returns(answer, postal_code) ==
    IF answer.kind = "json" THEN parse_alerts(answer.data, postal_code) ELSE <<>>

\* get_alerts from the answer on, then _async_update_data returns the list, which
\* DataUpdateCoordinator publishes as its data
AlertsAnswered(answer) ==
    /\ apc = "await_get"
    /\ aresponse' = answer
    /\ aresult' = [kind |-> "data", value |-> get_alerts_returns(answer, alerts_postal_code)]
    /\ adata' = get_alerts_returns(answer, alerts_postal_code)
    /\ apc' = "idle"
    /\ UNCHANGED <<alerts_postal_code, alerts_session, aticks>>
    /\ UNCHANGED <<cacheVars, retryVars, forecastVars, currentVars, entryVars, stationVars, viewVars>>

NextAlerts ==
    \/ \E postal_code \in AlertPostalCodes : AlertsConstruct(postal_code)
    \/ AlertsClock
    \/ AlertsTickStart
    \/ \E answer \in AlertAnswers : AlertsAnswered(answer)

SpecAlerts == InitAlerts /\ [][NextAlerts]_vars

(***************************************************************************)
(* Claims about the alerts.                                                *)
(***************************************************************************)
AlertsTickDone == apc = "idle" /\ aresult.kind = "data"

RequestFailed == aresponse.kind \in {"status", "client_error", "exception"}

\* C13: a tick whose upstream request fails, by an exception or a status other
\* than 200, ends in the failed outcome; here for the alerts coordinator: after
\* such a tick the result is the failure, never a published list.
C13_FailedRequestFailsTick ==
    (apc = "idle" /\ RequestFailed) => aresult = UpdateFailed

WarningsField == aresponse.data["warnings"]

\* C15: a payload whose warnings field is a single object gives the same alert
\* list, of one element, as the payload whose warnings field is the list of that
\* one object; a payload without the field, or with an empty one, gives the empty
\* list.
C15_SingleObjectEqualsList ==
    (AlertsTickDone /\ aresponse.kind = "json") =>
       IF "warnings" \notin DOMAIN aresponse.data
       THEN aresult.value = <<>>
       ELSE IF JsonFalsy(WarningsField)
       THEN aresult.value = <<>>
       ELSE IsJsonObject(WarningsField) =>
               /\ Len(aresult.value) = 1
               /\ aresult.value =
                     parse_alerts([n \in {"warnings"} |-> [list |-> <<WarningsField>>]],
                                  alerts_postal_code)

\* a single warning object with a start and an end was answered and parsed
C15_Witness ==
    /\ AlertsTickDone
    /\ aresponse.kind = "json"
    /\ "warnings" \in DOMAIN aresponse.data
    /\ IsJsonObject(WarningsField)
    /\ Len(aresult.value) = 1
    /\ aresult.value[1].valid_from = Some(TimeStep * 1000)
    /\ aresult.value[1].valid_to # None

\* C16: for every published alert, with valid_from and valid_to present or
\* absent, is_active returns a value, and the value is
\* not outlook and (valid_to absent or valid_from <= now <= valid_to).
C16_IsActiveDefined ==
    AlertsTickDone =>
       \A i \in 1..Len(aresult.value) :
          LET alert == aresult.value[i]
          IN /\ is_active(alert, NowMs) # Raised("TypeError")
             /\ is_active(alert, NowMs) =
                   Returns(/\ ~alert.outlook
                           /\ \/ alert.valid_to = None
                              \/ /\ alert.valid_from.some <= NowMs
                                 /\ NowMs <= alert.valid_to.some)

SameIdentity(a, b) ==
    /\ a.warn_level = b.warn_level
    /\ a.warn_type = b.warn_type
    /\ a.valid_from = b.valid_from

\* C17: two alerts of one payload have the same id exactly when they agree on
\* severity, type and start time (the region is the payload's), an alert without
\* start time has the token now in place of it, and alerts of different regions
\* have different ids.
C17_IdFromRegionSeverityTypeStart ==
    /\ AlertsTickDone =>
          /\ \A i, j \in 1..Len(aresult.value) :
                (aresult.value[i].alert_id = aresult.value[j].alert_id)
                   <=> SameIdentity(aresult.value[i], aresult.value[j])
          /\ \A i \in 1..Len(aresult.value) :
                LET alert == aresult.value[i]
                IN alert.alert_id =
                      FormatStr(alerts_postal_code) \o <<"_">> \o IntChars(alert.warn_level)
                         \o <<"_">> \o IntChars(alert.warn_type) \o <<"_">>
                         \o (IF alert.valid_from = None
                             THEN <<"n", "o", "w">>
                             ELSE IntChars(alert.valid_from.some))
    /\ \A p1, p2 \in AlertPostalCodes : \A w1, w2 \in PairedWarnings :
          (parse_single_alert(w1, p1).alert_id = parse_single_alert(w2, p2).alert_id)
             => p1 = p2

\* two alerts of one payload that differ in nothing but the type, with two ids
C17_Witness ==
    /\ AlertsTickDone
    /\ Len(aresult.value) = 2
    /\ aresult.value[1].alert_id # aresult.value[2].alert_id
    /\ aresult.value[1].warn_level = aresult.value[2].warn_level
    /\ aresult.value[1].valid_from = aresult.value[2].valid_from
    /\ aresult.value[1].valid_from = None

(***************************************************************************)
(* __init__.py: async_setup_entry and async_unload_entry of one config     *)
(* entry, with the HTTP session each of its four coordinators acquires on  *)
(* its first request.                                                      *)
(***************************************************************************)
MaxSetups == 2

DataSources == {"meteoswiss", "openmeteo"}

OpenSessions == {k \in CoordinatorKeys : esession[k] = "open"}

\* `if self._session is None: self._session = aiohttp.ClientSession(...)` before a request
Acquire(k, asks) ==
    esession' = [esession EXCEPT ![k] = IF asks THEN "open" ELSE @]

InitEntry ==
    /\ CacheIdle
    /\ RetryIdle
    /\ ForecastIdle
    /\ CurrentIdle
    /\ AlertsIdle
    /\ EntryIdle
    /\ StationsIdle
    /\ ViewIdle

\* async_setup_entry up to the first refresh: new coordinator objects, whatever the
\* objects of an earlier setup still hold is no longer reachable
SetupStart(source) ==
    /\ estate \in {"not_loaded", "setup_failed", "unloaded"}
    /\ esetups < MaxSetups
    /\ esetups' = esetups + 1
    /\ esource' = source
    /\ eleaked' = eleaked + Cardinality(OpenSessions)
    /\ esession' = [k \in CoordinatorKeys |-> "none"]
    /\ estate' = "refresh_current"
    /\ UNCHANGED <<cacheVars, retryVars, forecastVars, currentVars, alertVars, stationVars, viewVars>>

\* await coordinator.async_config_entry_first_refresh(): a cache hit succeeds without
\* a request; a failed refresh raises ConfigEntryNotReady out of async_setup_entry
RefreshCurrent(asks, ok) ==
    /\ estate = "refresh_current"
    /\ ~asks => ok
    /\ Acquire("coordinator", asks)
    /\ estate' = IF ok THEN "refresh_forecast" ELSE "setup_failed"
    /\ UNCHANGED <<esource, eleaked, esetups>>
    /\ UNCHANGED <<cacheVars, retryVars, forecastVars, currentVars, alertVars, stationVars, viewVars>>

\* await forecast_coordinator.async_config_entry_first_refresh(): it succeeds only
\* with the data of a request; with no applicable source it fails without one
RefreshForecast(asks, ok) ==
    /\ estate = "refresh_forecast"
    /\ ok => asks
    /\ Acquire("forecast_coordinator", asks)
    /\ estate' = IF ok THEN "refresh_alerts" ELSE "setup_failed"
    /\ UNCHANGED <<esource, eleaked, esetups>>
    /\ UNCHANGED <<cacheVars, retryVars, forecastVars, currentVars, alertVars, stationVars, viewVars>>

\* await alerts_coordinator.async_config_entry_first_refresh(): get_alerts always
\* makes its request and never raises
RefreshAlerts ==
    /\ estate = "refresh_alerts"
    /\ Acquire("alerts_coordinator", TRUE)
    /\ estate' = "refresh_pollen"
    /\ UNCHANGED <<esource, eleaked, esetups>>
    /\ UNCHANGED <<cacheVars, retryVars, forecastVars, currentVars, alertVars, stationVars, viewVars>>

\* await pollen_coordinator.async_config_entry_first_refresh(), then the coordinators
\* are stored in hass.data and the platforms are set up
RefreshPollen ==
    /\ estate = "refresh_pollen"
    /\ Acquire("pollen_coordinator", TRUE)
    /\ estate' = "loaded"
    /\ UNCHANGED <<esource, eleaked, esetups>>
    /\ UNCHANGED <<cacheVars, retryVars, forecastVars, currentVars, alertVars, stationVars, viewVars>>

\* a periodic tick of a coordinator of the loaded entry that makes a request
EntryTick(k) ==
    /\ estate \in {"loaded", "unload_failed"}
    /\ k \in {"coordinator", "forecast_coordinator", "alerts_coordinator"}
    /\ esession[k] = "none"
    /\ Acquire(k, TRUE)
    /\ UNCHANGED <<estate, esource, eleaked, esetups>>
    /\ UNCHANGED <<cacheVars, retryVars, forecastVars, currentVars, alertVars, stationVars, viewVars>>

\* the coordinators whose async_close async_unload_entry awaits
ClosedOnUnload == {"forecast_coordinator", "alerts_coordinator", "pollen_coordinator"}

\* async_unload_entry: unload_ok is what async_unload_platforms returned; async_close
\* closes the session and sets _session to None
UnloadEntry(unload_ok) ==
    /\ estate \in {"loaded", "unload_failed"}
    /\ IF unload_ok
       THEN /\ esession' = [k \in CoordinatorKeys |->
                               IF k \in ClosedOnUnload THEN "none" ELSE esession[k]]
            /\ estate' = "unloaded"
       ELSE /\ esession' = esession
            /\ estate' = "unload_failed"
    /\ UNCHANGED <<esource, eleaked, esetups>>
    /\ UNCHANGED <<cacheVars, retryVars, forecastVars, currentVars, alertVars, stationVars, viewVars>>

NextEntry ==
    \/ \E source \in DataSources : SetupStart(source)
    \/ \E asks, ok \in BOOLEAN : RefreshCurrent(asks, ok)
    \/ \E asks, ok \in BOOLEAN : RefreshForecast(asks, ok)
    \/ RefreshAlerts
    \/ RefreshPollen
    \/ \E k \in CoordinatorKeys : EntryTick(k)
    \/ \E unload_ok \in BOOLEAN : UnloadEntry(unload_ok)

SpecEntry == InitEntry /\ [][NextEntry]_vars

\* C14: after async_unload_entry has completed successfully, no coordinator that
\* async_setup_entry created for the entry still has an open HTTP session.
C14_SessionsReleasedOnUnload ==
    estate = "unloaded" => \A k \in CoordinatorKeys : esession[k] # "open"

(***************************************************************************)
(* stations_map.py: MeteoSwissStationsMap, the station directory.          *)
(* The metadata feed is a file of bytes: a sequence of lines, a line a     *)
(* sequence of ";"-separated parts, a part a sequence of bytes.  An ASCII  *)
(* byte is written as its character, a high byte as "0x..".                *)
(***************************************************************************)
MaxLoads == 2

\* stations_map.py: the encodings load_stations tries, in this order
Encodings == <<"iso-8859-1", "latin-1", "cp1252", "utf-8-sig", "utf-8">>

HighBytes == {"0xFC", "0x81", "0xC3", "0xBC"}

\* bytes.decode("iso-8859-1") of one byte: byte n is code point n
Latin1Char(b) ==
    CASE b = "0xFC" -> "U+00FC"
      [] b = "0x81" -> "U+0081"
      [] b = "0xC3" -> "U+00C3"
      [] b = "0xBC" -> "U+00BC"
      [] OTHER -> b

\* bytes.decode(enc): Some(text), or None for UnicodeDecodeError.  latin-1 takes
\* every byte, cp1252 has no character for 0x81, UTF-8 takes a high byte only
\* inside a well-formed sequence (here C3 BC, the letter U+00FC)
RECURSIVE DecodeBytes(_, _)
DecodeBytes(enc, bytes) ==
    IF bytes = <<>> THEN Some(<<>>)
    ELSE LET b == Head(bytes)
             utf8 == enc \in {"utf-8-sig", "utf-8"}
             two == utf8 /\ b = "0xC3" /\ Len(bytes) >= 2 /\ bytes[2] = "0xBC"
             bad == IF utf8 THEN b \in HighBytes /\ ~two
                    ELSE enc = "cp1252" /\ b = "0x81"
             rest == DecodeBytes(enc, IF two THEN Tail(Tail(bytes)) ELSE Tail(bytes))
         IN IF bad \/ rest = None THEN None
            ELSE Some(<<IF two THEN "U+00FC" ELSE Latin1Char(b)>> \o rest.some)

\* content_bytes.decode(encoding) succeeds: every part of every line decodes
Decodable(content, enc) ==
    \A i \in 1..Len(content) : \A j \in 1..Len(content[i]) :
        DecodeBytes(enc, content[i][j]) # None

\* decoded.strip().split("\n"), each line already split at ";"
DecodedLines(content, enc) ==
    [i \in 1..Len(content) |->
        [j \in 1..Len(content[i]) |-> DecodeBytes(enc, content[i][j]).some]]

\* load_stations: the loop over the encodings from the i-th on; lines is None
\* or Some(lines of the last encoding that decoded)
RECURSIVE DecodeLoop(_, _, _)
DecodeLoop(content, i, lines) ==
    IF i > Len(Encodings) THEN lines
    ELSE IF ~Decodable(content, Encodings[i]) THEN DecodeLoop(content, i + 1, lines)
    ELSE IF Len(content) > 10 THEN Some(DecodedLines(content, Encodings[i]))
    ELSE DecodeLoop(content, i + 1, Some(DecodedLines(content, Encodings[i])))

\* load_stations: if not lines or len(lines) < 2
DecodeFailed(lines) ==
    IF lines = None THEN TRUE ELSE lines.some = <<>> \/ Len(lines.some) < 2

\* load_stations: headers[k] if len(headers) > k else None (k counts from 0)
HeaderColumn(headers, k) ==
    IF Len(headers) > k THEN Str(Lower(Strip(headers[k + 1]))) ELSE None

\* float(part) if part else None raises ValueError
FloatRaises(part) == part # <<>> /\ ParseFloat(part) = None

\* float(part) if part else None
FloatOrNone(part) == IF part # <<>> THEN ParseFloat(part) ELSE None

\* load_stations: one row of the feed.  Some(station), or None when the row is
\* skipped: not more than 15 parts, a ValueError, or a false lat or lon
ParseStationRow(parts, headers) ==
    LET col_altitude == HeaderColumn(headers, 6)
        col_canton == HeaderColumn(headers, 7)
        col_start == HeaderColumn(headers, 8)
        reads_altitude == parts[7] # <<>> /\ Truthy(col_altitude)
        lat == FloatOrNone(parts[15])
        lon == FloatOrNone(parts[16])
    IN IF Len(parts) <= 15 THEN None
       ELSE IF \/ FloatRaises(parts[15])
               \/ FloatRaises(parts[16])
               \/ (reads_altitude /\ FloatRaises(parts[7]))
       THEN None
       ELSE IF lat = None \/ lon = None THEN None
       ELSE IF lat.some = 0 \/ lon.some = 0 THEN None
       ELSE Some([station_id |-> Str(Strip(parts[1])),
                  name |-> Str(Strip(parts[4])),
                  latitude |-> lat,
                  longitude |-> lon,
                  altitude |-> IF reads_altitude THEN ParseFloat(parts[7]) ELSE None,
                  canton |-> IF Truthy(col_canton) THEN Str(Strip(parts[8])) ELSE None,
                  start_date |-> IF Truthy(col_start) THEN Str(Strip(parts[9])) ELSE None])

\* self._stations[key] = station
Store(dict, key, station) ==
    [k \in DOMAIN dict \cup {key} |-> IF k = key THEN station ELSE dict[k]]

\* load_stations: for line in lines[1:], from the i-th line on
RECURSIVE ParseRows(_, _, _)
ParseRows(lines, i, dict) ==
    IF i > Len(lines) THEN dict
    ELSE LET station == ParseStationRow(lines[i], lines[1])
         IN ParseRows(lines, i + 1,
                      IF station = None THEN dict
                      ELSE Store(dict, Lower(station.some.station_id.str), station.some))

\* MeteoSwissStationsMap.get_station
get_station(station_id) ==
    IF Lower(station_id) \in DOMAIN stations THEN Some(stations[Lower(station_id)]) ELSE None

\* the header line of the feed: 16 column names
HeaderLine == [j \in 1..16 |-> <<"c", "o", "l", DigitChar(j % 10)>>]

\* a feed row of 16 parts
FeedRow(id, name, altitude, lat, lon) ==
    [j \in 1..16 |->
        CASE j = 1 -> id
          [] j = 4 -> name
          [] j = 7 -> altitude
          [] j = 8 -> <<"B", "E">>
          [] j = 9 -> <<"1", "9", "0", "1">>
          [] j = 15 -> lat
          [] j = 16 -> lon
          [] OTHER -> <<>>]

\* the kinds of row a feed has; every kind has a station id of its own
RowKinds == {"good", "no_altitude", "no_lat", "no_lon", "bad_lat", "short",
             "bad_altitude", "zero_lat"}

Lat469 == <<"4", "6", ".", "9">>

Lon74 == <<"7", ".", "4">>

RowOfKind(kind, name) ==
    CASE kind = "good" -> FeedRow(<<"B", "E", "R">>, name, <<"5", "5", "3">>, Lat469, Lon74)
      [] kind = "no_altitude" -> FeedRow(<<" ", "L", "U", "G">>, name, <<>>, Lat469, Lon74)
      [] kind = "no_lat" -> FeedRow(<<"A", "B", "E">>, name, <<"5", "5", "3">>, <<>>, Lon74)
      [] kind = "no_lon" -> FeedRow(<<"A", "L", "U">>, name, <<"5", "5", "3">>, Lat469, <<>>)
      [] kind = "bad_lat" -> FeedRow(<<"G", "U", "R">>, name, <<"5", "5", "3">>, <<"x">>, Lon74)
      [] kind = "short" ->
            SubSeq(FeedRow(<<"G", "L", "A">>, name, <<"5", "5", "3">>, Lat469, Lon74), 1, 15)
      [] kind = "bad_altitude" -> FeedRow(<<"R", "A", "G">>, name, <<"-">>, Lat469, Lon74)
      [] kind = "zero_lat" -> FeedRow(<<"E", "B", "R">>, name, <<"5", "5", "3">>, <<"0", ".", "0">>, Lon74)

\* the bytes of a station name: ASCII, Latin-1, UTF-8, and one with byte 0x81
NameBytes == {<<"B", "e", "r", "n">>,
              <<"Z", "0xFC", "r", "i">>,
              <<"Z", "0xC3", "0xBC", "r">>,
              <<"G", "0x81", "f">>}

\* the row that fills a feed up to the length wanted
FillerRow(i) == FeedRow(<<"f", DigitChar(i)>>, <<"F">>, <<>>, Lat469, <<"7", ".", DigitChar(i)>>)

\* the numbers of lines a feed has
FeedLengths == {3, 10, 11}

\* a feed of n lines: the header, two rows of the kinds given, and fillers
FeedOf(n, kind1, kind2, name) ==
    <<HeaderLine, RowOfKind(kind1, name), RowOfKind(kind2, name)>>
        \o [i \in 1..(n - 3) |-> FillerRow(i)]

\* the empty file: "".split("\n") is one empty line, and "".split(";") one
\* empty part
EmptyFeed == << << <<>> >> >>

Feeds ==
    {EmptyFeed} \cup
    {FeedOf(n, k[1], k[2], name) : n \in FeedLengths, k \in RowKinds \X RowKinds,
                                   name \in NameBytes}

\* what the request of load_stations meets
StationAnswers ==
    {[kind |-> "status", status |-> 503], [kind |-> "raise", exc |-> "ClientError"]}
        \cup {[kind |-> "content", content |-> c] : c \in Feeds}

NoStations == [k \in {} |-> None]

\* what load_stations returned; path is history: which return statement it was
Returned(path, dict) == [path |-> path, value |-> dict]

InitStations ==
    /\ CacheIdle
    /\ RetryIdle
    /\ ForecastIdle
    /\ CurrentIdle
    /\ AlertsIdle
    /\ EntryIdle
    /\ StationsIdle
    /\ ViewIdle

\* load_stations that ignores self._loaded
LoadStationsStart_always_fetches ==
    /\ spc = "idle"
    /\ sloads < MaxLoads
    /\ sloads' = sloads + 1
    /\ spc' = "get"
    /\ srequests' = srequests + 1
    /\ sret' = NoTick
    /\ UNCHANGED <<stations, loaded, sresponse, nearby, station_keys>>
    /\ UNCHANGED <<cacheVars, retryVars, forecastVars, currentVars, alertVars, entryVars, viewVars>>

\* load_stations up to the request: a loaded directory is returned at once
LoadStationsStart ==
    /\ spc = "idle"
    /\ sloads < MaxLoads
    /\ sloads' = sloads + 1
    /\ IF loaded
       THEN /\ sret' = Returned("cached", stations)
            /\ UNCHANGED <<spc, srequests>>
       ELSE /\ spc' = "get"
            /\ srequests' = srequests + 1
            /\ sret' = NoTick
    /\ UNCHANGED <<stations, loaded, sresponse, nearby, station_keys>>
    /\ UNCHANGED <<cacheVars, retryVars, forecastVars, currentVars, alertVars, entryVars, viewVars>>

\* what load_stations makes of each line of the feed after the header: the
\* key and the station it stores, or None for a row it skips
StoredRows(lines) ==
    [i \in 2..Len(lines) |->
        LET station == ParseStationRow(lines[i], lines[1])
        IN IF station = None THEN None
           ELSE Some(Lower(station.some.station_id.str))]

\* the keys of self._stations after the rows are stored: a dict keeps its keys
\* in the order in which they were first stored
KeysInOrder(rows, keys) ==
    LET first == {i \in DOMAIN rows :
                    /\ rows[i] # None
                    /\ \A j \in DOMAIN rows : j < i => rows[j] # rows[i]
                    /\ \A n \in 1..Len(keys) : Some(keys[n]) # rows[i]}
    IN keys \o [p \in 1..Cardinality(first) |->
                  rows[CHOOSE i \in first : Cardinality({j \in first : j < i}) = p - 1].some]

\* load_stations from the answer of the request to its return
LoadStationsAnswered(answer) ==
    /\ spc = "get"
    /\ spc' = "idle"
    /\ sresponse' = answer
    /\ IF answer.kind # "content"
       THEN /\ sret' = Returned("failed", NoStations)
            /\ UNCHANGED <<stations, loaded, station_keys>>
       ELSE LET lines == DecodeLoop(answer.content, 1, None)
            IN IF DecodeFailed(lines)
               THEN /\ sret' = Returned("failed", NoStations)
                    /\ UNCHANGED <<stations, loaded, station_keys>>
               ELSE /\ stations' = ParseRows(lines.some, 2, stations)
                    /\ station_keys' = KeysInOrder(StoredRows(lines.some), station_keys)
                    /\ loaded' = TRUE
                    /\ sret' = Returned("loaded", stations')
    /\ UNCHANGED <<srequests, sloads, nearby>>
    /\ UNCHANGED <<cacheVars, retryVars, forecastVars, currentVars, alertVars, entryVars, viewVars>>

\* self._stations.values()
StationValues == [i \in 1..Len(station_keys) |-> stations[station_keys[i]]]

\* the largest r with r * r <= n, looked for from r upwards
RECURSIVE IsqrtFrom(_, _)
IsqrtFrom(n, r) == IF (r + 1) * (r + 1) > n THEN r ELSE IsqrtFrom(n, r + 1)

Isqrt(n) == IsqrtFrom(n, 0)

\* radians(x) in units of 1/10000 rad, x in tenths of a degree
Radians(x) == (x * 17453) \div 1000

\* cos(x) times 10000, x in 1/10000 rad: 1 - x^2/2 + x^4/24
Cos(x) ==
    LET sq == (x * x) \div 10000
    IN 10000 - sq \div 2 + (sq * sq) \div 240000

\* _calculate_distance, in whole km, for points a few degrees apart: with
\* sin(x) = x and asin(x) = x the Haversine formula is
\* r * sqrt(dlat^2 + cos(lat1) * cos(lat2) * dlon^2), r = 6371
calculate_distance(lat1, lon1, lat2, lon2) ==
    LET dlat == Radians(lat2) - Radians(lat1)
        dlon == Radians(lon2) - Radians(lon1)
        coscos == (Cos(Radians(lat1)) * Cos(Radians(lat2))) \div 10000
    IN (6371 * Isqrt(dlat * dlat + (coscos * dlon * dlon) \div 10000)) \div 10000

\* list.sort(key=lambda x: x[1]): the sort is stable, so a pair comes after the
\* pairs that are nearer and after the pairs as far that stood before it
RankByDistance(pairs, i) ==
    1 + Cardinality({j \in 1..Len(pairs) :
                        \/ pairs[j][2] < pairs[i][2]
                        \/ (pairs[j][2] = pairs[i][2] /\ j < i)})

SortByDistance(pairs) ==
    [p \in 1..Len(pairs) |->
        pairs[CHOOSE i \in 1..Len(pairs) : RankByDistance(pairs, i) = p]]

\* seq[:limit]
SliceTo(seq, limit) ==
    SubSeq(seq, 1, IF limit >= 0 THEN Min(limit, Len(seq)) ELSE Max(0, Len(seq) + limit))

\* get_nearby_stations that returns the pairs unsorted
get_nearby_stations_unsorted(lat, lon, max_distance_km, limit) ==
    LET values == StationValues
        with_distance ==
            [i \in 1..Len(values) |->
                <<values[i],
                  calculate_distance(lat, lon,
                                     values[i].latitude.some,
                                     values[i].longitude.some)>>]
    IN SliceTo(SelectSeq(with_distance, LAMBDA pair : pair[2] <= max_distance_km), limit)

\* MeteoSwissStationsMap.get_nearby_stations
get_nearby_stations(lat, lon, max_distance_km, limit) ==
    LET values == StationValues
        with_distance ==
            [i \in 1..Len(values) |->
                <<values[i],
                  calculate_distance(lat, lon,
                                     values[i].latitude.some,
                                     values[i].longitude.some)>>]
        stations_with_distance ==
            SelectSeq(with_distance, LAMBDA pair : pair[2] <= max_distance_km)
    IN SliceTo(SortByDistance(stations_with_distance), limit)

\* the calls of get_nearby_stations: from a point in tenths of a degree, with
\* a largest distance in km and a limit
NearbyPoints == {<<469, 74>>, <<471, 78>>}

NearbyDistances == {10, 50}

NearbyLimits == {0, 2, 10}

\* a call of get_nearby_stations on the directory as it is
GetNearbyStations(lat, lon, max_distance_km, limit) ==
    /\ spc = "idle"
    /\ nearby' = [latitude |-> lat, longitude |-> lon,
                  max_distance_km |-> max_distance_km, limit |-> limit,
                  returns |-> get_nearby_stations(lat, lon,
                                                  max_distance_km, limit)]
    /\ UNCHANGED <<stations, loaded, spc, sresponse, sret, srequests, sloads, station_keys>>
    /\ UNCHANGED <<cacheVars, retryVars, forecastVars, currentVars, alertVars, entryVars, viewVars>>

NextStations ==
    \/ LoadStationsStart
    \/ \E answer \in StationAnswers : LoadStationsAnswered(answer)

SpecStations == InitStations /\ [][NextStations]_vars

\* the feeds the directory is loaded from before it is asked for nearby stations
NearbyFeeds ==
    {FeedOf(11, k[1], k[2], <<"B", "e", "r", "n">>) : k \in RowKinds \X RowKinds}

\* the directory after load_stations has loaded the feed
LoadedFrom(feed) ==
    /\ stations = ParseRows(DecodeLoop(feed, 1, None).some, 2, NoStations)
    /\ station_keys = KeysInOrder(StoredRows(DecodeLoop(feed, 1, None).some), <<>>)
    /\ loaded = TRUE
    /\ spc = "idle"
    /\ sresponse = [kind |-> "content", content |-> feed]
    /\ sret = Returned("loaded", stations)
    /\ srequests = 1
    /\ sloads = 1
    /\ nearby = NoTick

\* a directory as constructed, or as one load_stations call has left it
InitNearby ==
    /\ CacheIdle
    /\ RetryIdle
    /\ ForecastIdle
    /\ CurrentIdle
    /\ AlertsIdle
    /\ EntryIdle
    /\ ViewIdle
    /\ \/ StationsIdle
       \/ \E feed \in NearbyFeeds : LoadedFrom(feed)

NextNearby ==
    \E p \in NearbyPoints, d \in NearbyDistances, n \in NearbyLimits :
        GetNearbyStations(p[1], p[2], d, n)

SpecNearby == InitNearby /\ [][NextNearby]_vars

(***************************************************************************)
(* Claims about the station directory.                                     *)
(***************************************************************************)
\* the places in Encodings of the encodings that decode the content to more
\* than 10 lines
Qualifying(content) ==
    {i \in 1..Len(Encodings) : Decodable(content, Encodings[i]) /\ Len(content) > 10}

FirstQualifying(content) ==
    CHOOSE i \in Qualifying(content) : \A j \in Qualifying(content) : i <= j

\* the directory holds what the first qualifying encoding decodes the content to
LoadedFromFirstQualifying(content) ==
    /\ loaded
    /\ stations = ParseRows(DecodedLines(content, Encodings[FirstQualifying(content)]),
                            2, NoStations)

\* when some encoding qualifies, the first one in the list is the one accepted
FirstQualifyingAccepted ==
    (spc = "idle" /\ sresponse.kind = "content" /\ Qualifying(sresponse.content) # {})
        => LoadedFromFirstQualifying(sresponse.content)

\* a feed whose accepted text differs from what a later encoding makes of it
FirstQualifyingSeen ==
    /\ spc = "idle"
    /\ sresponse.kind = "content"
    /\ Cardinality(Qualifying(sresponse.content)) > 1
    /\ \E k \in DOMAIN stations : stations[k].name = Str(<<"Z", "U+00C3", "U+00BC", "r">>)

\* C18: once load_stations has handled the bytes of the feed, either the first
\* encoding of the list that decodes them to more than 10 lines was accepted and
\* the directory holds that text's stations, or, when no encoding yields more
\* than 10 lines or the text has fewer than 2 lines, the load failed and the
\* directory holds nothing.
C18_DecodeAcceptsFirstOrFails ==
    (spc = "idle" /\ sresponse.kind = "content") =>
        IF Qualifying(sresponse.content) # {} /\ Len(sresponse.content) >= 2
        THEN LoadedFromFirstQualifying(sresponse.content)
        ELSE /\ sret = Returned("failed", NoStations)
             /\ ~loaded
             /\ stations = NoStations

\* a step of load_stations up to the request
StartsLoad == sloads' = sloads + 1

\* the last load failed: a status other than 200, an exception, or content that
\* does not decode to 2 lines
LastLoadFailed ==
    /\ spc = "idle"
    /\ \/ sresponse.kind \in {"status", "raise"}
       \/ /\ sresponse.kind = "content"
          /\ DecodeFailed(DecodeLoop(sresponse.content, 1, None))

\* C19: once a load has succeeded the directory stays loaded, and every later
\* load_stations call returns the directory as it is, makes no request and
\* changes nothing; a failed load (status other than 200, undecodable content,
\* exception) returns an empty result and leaves the directory not loaded, and
\* a call on a directory that is not loaded makes a request.
C19_LoadOnceThenCached ==
    /\ [][/\ loaded => loaded' /\ stations' = stations /\ srequests' = srequests
          /\ (StartsLoad /\ loaded) =>
                (sret' = Returned("cached", stations) /\ spc' = "idle")
          /\ (StartsLoad /\ ~loaded) => (srequests' = srequests + 1 /\ spc' = "get")]_vars
    /\ [](LastLoadFailed => (~loaded /\ sret.value = NoStations))
    /\ []((spc = "idle" /\ sret # NoTick /\ sret.path = "loaded") => loaded)

\* a second call was served from the directory after one request, and a second
\* call fetched again after a failed first
C19_Witness ==
    /\ sloads = 2
    /\ spc = "idle"
    /\ srequests = 1
    /\ loaded
    /\ DOMAIN stations # {}
    /\ sret = Returned("cached", stations)

RefetchSeen == sloads = 2 /\ srequests = 2 /\ loaded /\ spc = "idle"

\* the (station, distance) pairs of all stations of the directory
AllDistances ==
    {<<stations[k], calculate_distance(nearby.latitude, nearby.longitude,
                                       stations[k].latitude.some,
                                       stations[k].longitude.some)>> : k \in DOMAIN stations}

\* C21: what get_nearby_stations returned has at most limit pairs, each a
\* station of the directory with its distance to the point asked, no station
\* twice, every distance at most max_distance_km, the distances in
\* non-decreasing order, and every station within max_distance_km that is not
\* returned is at least as far as every returned one, the result being full.
C21_NearestWithinDistance ==
    nearby # NoTick =>
        LET r == nearby.returns
            returned == {r[i] : i \in 1..Len(r)}
        IN /\ Len(r) <= nearby.limit
           /\ returned \subseteq AllDistances
           /\ Cardinality(returned) = Len(r)
           /\ \A i \in 1..Len(r) : r[i][2] <= nearby.max_distance_km
           /\ \A i \in 1..Len(r) - 1 : r[i][2] <= r[i + 1][2]
           /\ \A out \in AllDistances \ returned :
                 out[2] <= nearby.max_distance_km =>
                    /\ Len(r) = nearby.limit
                    /\ \A i \in 1..Len(r) : r[i][2] <= out[2]

\* a call that left out a station within the distance because of the limit,
\* and returned stations at different distances in an order other than the
\* directory's
C21_Witness ==
    /\ nearby # NoTick
    /\ Len(nearby.returns) = 2
    /\ nearby.returns[1][2] < nearby.returns[2][2]
    /\ nearby.returns[1][1] # StationValues[1]
    /\ \E out \in AllDistances :
          /\ \A i \in 1..2 : nearby.returns[i] # out
          /\ out[2] <= nearby.max_distance_km
          /\ out[2] > nearby.returns[2][2]

\* both coordinates of a row are present and parse
HasCoordinates(parts) ==
    /\ Len(parts) > 15
    /\ parts[15] # <<>>
    /\ parts[16] # <<>>
    /\ ParseFloat(parts[15]) # None
    /\ ParseFloat(parts[16]) # None

\* the station get_station finds under the id, as written and in lower case, is
\* the row's
Retrievable(parts) ==
    \A id \in {Strip(parts[1]), Lower(Strip(parts[1]))} :
        /\ get_station(id) # None
        /\ get_station(id).some.station_id = Str(Strip(parts[1]))
        /\ get_station(id).some.latitude = ParseFloat(parts[15])
        /\ get_station(id).some.longitude = ParseFloat(parts[16])

\* the text load_stations parsed
ParsedLines == DecodeLoop(sresponse.content, 1, None).some

\* C20: every station in the directory has a latitude and a longitude; after a
\* load that parsed a feed, the load has not failed, a row lacking a coordinate
\* or with an unparsable one is not in the directory, and every other row is
\* found by get_station under its id in either case.
C20_OnlyRowsWithoutCoordinatesDropped ==
    /\ \A k \in DOMAIN stations :
          stations[k].latitude # None /\ stations[k].longitude # None
    /\ loaded =>
          /\ sret.path # "failed"
          /\ \A i \in 2..Len(ParsedLines) :
                IF HasCoordinates(ParsedLines[i])
                THEN Retrievable(ParsedLines[i])
                ELSE get_station(Strip(ParsedLines[i][1])) = None

\* rows without coordinates are dropped and the stations that are kept have
\* both coordinates
KeptHaveCoordinates ==
    /\ \A k \in DOMAIN stations :
          stations[k].latitude # None /\ stations[k].longitude # None
    /\ loaded =>
          /\ sret.path # "failed"
          /\ \A i \in 2..Len(ParsedLines) :
                ~HasCoordinates(ParsedLines[i])
                    => get_station(Strip(ParsedLines[i][1])) = None

\* C25: when a forecast tick has succeeded, data_source is the name of the
\* source (open-meteo, meteoswiss-csv, meteoswiss-app) every entry of the
\* returned data came from; data_source is None when the coordinator is
\* constructed and changes only as a tick succeeds, so it is None until the
\* first successful tick.
C25_DataSourceNamesServingSource ==
    /\ []((TickOver /\ tickResult.kind = "data") =>
            \E i \in Sources :
                /\ data_source = SourceName(i)
                /\ tickResult.data # <<>>
                /\ \A h \in 1..Len(tickResult.data) : tickResult.data[h].from = i)
    /\ [](fticks = 0 => data_source = None)
    /\ [][data_source' # data_source => (fpc' = "idle" /\ tickResult'.kind = "data")]_vars

\* a second tick was served by the last source
C25_Witness ==
    /\ TickOver
    /\ fticks = 2
    /\ tickResult.kind = "data"
    /\ data_source = SourceName(3)
    /\ requested = <<1, 2, 3>>

(***************************************************************************)
(* Claims about the retry wrapper.                                         *)
(***************************************************************************)
AllInvocationsRaised == \A i \in 1..Len(invocations) : invocations[i].kind = "raise"

\* C6: with max_attempts >= 1, a function that fails on every attempt has been
\* invoked exactly max_attempts times when the wrapper is done; the sleep before
\* attempt k+1 was min(base_delay * 2^(k-1), max_delay) (1.0, 2.0, 4.0 s for the
\* defaults 4, 1.0, 10.0); there was no sleep after the last failure; and the
\* wrapper raised the exception of the last attempt.
C6_RetryExhausted ==
    (rpc = "done" /\ max_attempts >= 1 /\ AllInvocationsRaised) =>
        /\ Len(invocations) = max_attempts
        /\ Len(sleeps) = max_attempts - 1
        /\ \A k \in 1..(max_attempts - 1) :
              sleeps[k] = IF base_delay * 2^(k - 1) <= max_delay
                          THEN base_delay * 2^(k - 1)
                          ELSE max_delay
        /\ (max_attempts = 4 /\ base_delay = 10 /\ max_delay = 100 => sleeps = <<10, 20, 40>>)
        /\ result = [kind |-> "raise", exc |-> invocations[max_attempts].exc]
        /\ invocations[max_attempts].exc.at = max_attempts

\* C6 witness: the defaults, four failed invocations, three sleeps, the fourth
\* exception raised to the caller.
C6_Witness ==
    /\ rpc = "done"
    /\ max_attempts = 4 /\ base_delay = 10 /\ max_delay = 100
    /\ Len(invocations) = 4
    /\ AllInvocationsRaised
    /\ sleeps = <<10, 20, 40>>
    /\ result.kind = "raise"
    /\ result.exc.at = 4

C7_ReturnsFirstSuccess ==
    /\ Len(invocations) <= Max(max_attempts, 0)
    /\ \A k \in 1..Len(invocations) :
          invocations[k].kind = "return" =>
              /\ k = Len(invocations)
              /\ k <= max_attempts
              /\ rpc = "done"
              /\ result = [kind |-> "return", value |-> invocations[k].value]

\* C7: when the function first succeeds on attempt k <= max_attempts the wrapper
\* returns that attempt's result, the function has been invoked exactly k times
\* and is never invoked again; the function is never invoked more than
\* max_attempts times and the wrapper always comes to its end.
C7_RetryStopsAtSuccess == [](C7_ReturnsFirstSuccess) /\ <>(rpc = "done")

\* C7 witness: two failures, then a success on the third of four attempts, whose
\* value the wrapper returned.
C7_Witness ==
    /\ rpc = "done"
    /\ max_attempts = 4
    /\ Len(invocations) = 3
    /\ invocations[1].kind = "raise" /\ invocations[2].kind = "raise"
    /\ invocations[3] = [kind |-> "return", value |-> [v |-> 1]]
    /\ result = [kind |-> "return", value |-> [v |-> 1]]
    /\ Len(sleeps) = 2

(***************************************************************************)
(* SpecCache: one cache object under arbitrary calls and a moving clock.   *)
(***************************************************************************)
\* time passes
Tick ==
    /\ now < MaxTime * TimeStep
    /\ now' = now + TimeStep
    /\ UNCHANGED <<cache, hits, misses, evictions, call, ret, nops, lastSet, expiredSeen>>
    /\ UNCHANGED <<retryVars, forecastVars, currentVars, restVars>>

\* the keys whose last set is expired at the current time
ExpiredNow == {k \in CacheKeys : lastSet[k] # NoSet /\ now - lastSet[k].t0 > lastSet[k].ttl}

Get(key) ==
    /\ nops < MaxOps
    /\ UNCHANGED <<retryVars, forecastVars, currentVars, restVars>>
    /\ LET g == get(CacheObj, key, now)
       IN /\ StoreCacheObj(g.c)
          /\ ret' = g.ret
    /\ call' = [op |-> "get", key |-> key]
    /\ nops' = nops + 1
    /\ expiredSeen' = [expiredSeen EXCEPT ![key] = @ \/ key \in ExpiredNow]
    /\ UNCHANGED <<now, lastSet>>

Set(key, value, ttl) ==
    /\ nops < MaxOps
    /\ UNCHANGED <<retryVars, forecastVars, currentVars, restVars>>
    /\ StoreCacheObj(set(CacheObj, key, value, ttl, now))
    /\ ret' = None
    /\ call' = [op |-> "set", key |-> key]
    /\ nops' = nops + 1
    /\ lastSet' = [lastSet EXCEPT ![key] = SetRecord(value, ttl)]
    /\ expiredSeen' = [expiredSeen EXCEPT ![key] = FALSE]
    /\ UNCHANGED now

GetOrSet(key, made, ttl) ==
    /\ nops < MaxOps
    /\ UNCHANGED <<retryVars, forecastVars, currentVars, restVars>>
    /\ LET g == get_or_set(CacheObj, key, made, ttl, now)
       IN /\ StoreCacheObj(g.c)
          /\ ret' = g.ret
          /\ lastSet' = IF g.factoryCalls = 1
                        THEN [lastSet EXCEPT ![key] = SetRecord(made, ttl)]
                        ELSE lastSet
          /\ expiredSeen' = IF g.factoryCalls = 1
                            THEN [expiredSeen EXCEPT ![key] = FALSE]
                            ELSE expiredSeen
    /\ call' = [op |-> "get_or_set", key |-> key]
    /\ nops' = nops + 1
    /\ UNCHANGED now

Invalidate(key) ==
    /\ nops < MaxOps
    /\ UNCHANGED <<retryVars, forecastVars, currentVars, restVars>>
    /\ StoreCacheObj(invalidate(CacheObj, key))
    /\ ret' = None
    /\ call' = [op |-> "invalidate", key |-> key]
    /\ nops' = nops + 1
    /\ lastSet' = [lastSet EXCEPT ![key] = NoSet]
    /\ expiredSeen' = [expiredSeen EXCEPT ![key] = FALSE]
    /\ UNCHANGED now

Clear ==
    /\ nops < MaxOps
    /\ UNCHANGED <<retryVars, forecastVars, currentVars, restVars>>
    /\ StoreCacheObj(clear(CacheObj))
    /\ ret' = None
    /\ call' = [op |-> "clear", key |-> <<>>]
    /\ nops' = nops + 1
    /\ lastSet' = [k \in CacheKeys |-> NoSet]
    /\ expiredSeen' = [k \in CacheKeys |-> FALSE]
    /\ UNCHANGED now

CleanupExpired ==
    /\ nops < MaxOps
    /\ UNCHANGED <<retryVars, forecastVars, currentVars, restVars>>
    /\ LET g == cleanup_expired(CacheObj, now)
       IN /\ StoreCacheObj(g.c)
          /\ ret' = [count |-> g.ret]
    /\ call' = [op |-> "cleanup_expired", key |-> <<>>]
    /\ nops' = nops + 1
    /\ expiredSeen' = [k \in CacheKeys |-> expiredSeen[k] \/ k \in ExpiredNow]
    /\ UNCHANGED <<now, lastSet>>

GetStats ==
    /\ nops < MaxOps
    /\ UNCHANGED <<retryVars, forecastVars, currentVars, restVars>>
    /\ ret' = get_stats(CacheObj)
    /\ call' = [op |-> "get_stats", key |-> <<>>]
    /\ nops' = nops + 1
    /\ UNCHANGED <<now, cache, hits, misses, evictions, lastSet, expiredSeen>>

NextCache ==
    \/ Tick
    \/ \E key \in CacheKeys : Get(key)
    \/ \E key \in CacheKeys, value \in CacheValues, ttl \in CacheTtls : Set(key, value, ttl)
    \/ \E key \in CacheKeys, made \in FactoryValues, ttl \in CacheTtls : GetOrSet(key, made, ttl)
    \/ \E key \in CacheKeys : Invalidate(key)
    \/ Clear
    \/ CleanupExpired
    \/ GetStats

InitCache == CacheIdle /\ RetryIdle /\ ForecastIdle /\ CurrentIdle /\ RestIdle

SpecCache == InitCache /\ [][NextCache]_vars

(***************************************************************************)
(* Claims about the cache.                                                 *)
(***************************************************************************)

\* C1: after set(key, v, ttl) at t0 with no later set/invalidate/clear of the
\* key, a get(key) at time t returns v while t - t0 < ttl (and evicts nothing);
\* at t - t0 > ttl it returns absent, the entry is gone afterwards, and one
\* eviction is counted by the first expired removal only (a later get of the
\* same expired key counts none).
C1_TtlCorrectness ==
    [][(call'.op = "get" /\ nops' = nops + 1 /\ lastSet[call'.key] # NoSet) =>
        LET k == call'.key
            s == lastSet[k]
        IN /\ (now - s.t0 < s.ttl =>
                  /\ ret' = s.value
                  /\ evictions' = evictions
                  /\ k \in DOMAIN cache')
           /\ (now - s.t0 > s.ttl =>
                  /\ ret' = None
                  /\ k \notin DOMAIN cache'
                  /\ evictions' = evictions + (IF expiredSeen[k] THEN 0 ELSE 1))]_vars

\* C1 witness: a key was set, read as a hit, and then read after its ttl had
\* passed: the read returned absent, the entry is gone, one eviction counted.
C1_Witness ==
    /\ call.op = "get"
    /\ lastSet[call.key] # NoSet
    /\ now - lastSet[call.key].t0 > lastSet[call.key].ttl
    /\ expiredSeen[call.key]
    /\ ret = None
    /\ call.key \notin DOMAIN cache
    /\ hits = 1
    /\ misses = 2
    /\ evictions = 1

\* C22: get_stats reports hit_rate as the percentage 100 * hits / (hits + misses)
\* rounded to two decimals (here in hundredths, so within half a hundredth of
\* the exact percentage), 0 when there have been no requests, and
\* total_requests = hits + misses.
C22_HitRateIsPercentage ==
    call.op = "get_stats" =>
        /\ ret.total_requests = hits + misses
        /\ ret.hits = hits
        /\ ret.misses = misses
        /\ (hits + misses = 0 => ret.hit_rate = 0)
        /\ (hits + misses > 0 =>
              2 * Abs(ret.hit_rate * (hits + misses) - 100 * 100 * hits) <= hits + misses)

\* get_stats after one hit and two misses reports 33.33
C22_Witness ==
    /\ call.op = "get_stats"
    /\ hits = 1
    /\ misses = 2
    /\ ret.hit_rate = 3333
    /\ ret.total_requests = 3

\* C22 as stated: the number reported as hit_rate (ret.hit_rate / 100) equals
\* hits / (hits + misses), is 0 when there have been no requests, and
\* total_requests = hits + misses.
C22_HitRateIsFraction ==
    call.op = "get_stats" =>
        /\ ret.total_requests = hits + misses
        /\ (hits + misses = 0 => ret.hit_rate = 0)
        /\ (hits + misses > 0 => ret.hit_rate * (hits + misses) = 100 * hits)

\* the keys whose entry is expired at the current time
ExpiredKeys == {k \in DOMAIN cache : is_expired(cache[k], now)}

\* a step made by the call of one cache operation
CallOf(op) == nops' = nops + 1 /\ call'.op = op

\* C23: cleanup_expired removes exactly the entries expired at the time of the
\* call, returns their number, adds that number to evictions and leaves the
\* unexpired entries and the hit and miss counters as they were; no other step
\* removes an entry because it has expired except a get of its key: an entry
\* leaves the cache only by cleanup_expired, by a get of its key when it is
\* expired, or by invalidate or clear, and the passing of time removes nothing.
C23_CleanupRemovesExactlyExpired ==
    [][/\ CallOf("cleanup_expired") =>
             /\ cache' = [k \in (DOMAIN cache) \ ExpiredKeys |-> cache[k]]
             /\ ret' = [count |-> Cardinality(ExpiredKeys)]
             /\ evictions' = evictions + Cardinality(ExpiredKeys)
             /\ hits' = hits
             /\ misses' = misses
       /\ \A k \in DOMAIN cache :
             k \notin DOMAIN cache' =>
                \/ CallOf("cleanup_expired") /\ k \in ExpiredKeys
                \/ CallOf("get") /\ call'.key = k /\ k \in ExpiredKeys
                \/ CallOf("invalidate") /\ call'.key = k
                \/ CallOf("clear")]_vars

\* cleanup_expired removed one expired entry and kept an unexpired one
C23_Witness ==
    /\ call.op = "cleanup_expired"
    /\ ret = [count |-> 1]
    /\ evictions = 1
    /\ Cardinality(DOMAIN cache) = 1
    /\ \A k \in DOMAIN cache : ~is_expired(cache[k], now)

\* C24: get_or_set(key, factory, ttl) with a factory returning made: when key
\* has an unexpired entry, the factory is not invoked, the entry stays and its
\* value is returned; when key is absent or expired, the factory is invoked
\* exactly once, its result is stored under key with the ttl and returned.
\* This for every value the factory can return, None included.
C24_GetOrSetCallsFactoryOnlyOnMiss ==
    [][\A key \in CacheKeys, made \in FactoryValues, ttl \in CacheTtls :
          GetOrSet(key, made, ttl) =>
             LET g == get_or_set(CacheObj, key, made, ttl, now)
             IN IF key \in DOMAIN cache /\ ~is_expired(cache[key], now)
                THEN /\ g.factoryCalls = 0
                     /\ ret' = cache[key].value
                     /\ cache'[key] = cache[key]
                ELSE /\ g.factoryCalls = 1
                     /\ ret' = made
                     /\ cache'[key] = [key |-> key, value |-> made, timestamp |-> now,
                                       ttl |-> IF ttl = None THEN DefaultTtl ELSE ttl.some]]_vars

\* the same for factories that return a value other than None
GetOrSetOfValues ==
    [][\A key \in CacheKeys, made \in FactoryValues \ {None}, ttl \in CacheTtls :
          (GetOrSet(key, made, ttl)
              /\ (key \in DOMAIN cache => cache[key].value # None)) =>
             LET g == get_or_set(CacheObj, key, made, ttl, now)
             IN IF key \in DOMAIN cache /\ ~is_expired(cache[key], now)
                THEN /\ g.factoryCalls = 0
                     /\ ret' = cache[key].value
                     /\ cache'[key] = cache[key]
                ELSE /\ g.factoryCalls = 1
                     /\ ret' = made
                     /\ cache'[key] = [key |-> key, value |-> made, timestamp |-> now,
                                       ttl |-> IF ttl = None THEN DefaultTtl ELSE ttl.some]]_vars

(***************************************************************************)
(* weather.py: MeteoSwissWeather.async_forecast_daily.  An hourly entry is *)
(* a dict; its "datetime" is an ISO text "YYYY-MM-DDTHH:..", kept as the   *)
(* date dt_str[:10] and the hour that "T12:" and so on look for.           *)
(***************************************************************************)
MaxPoints == 2

\* forecast_data[:120]
HourlyCap == 120

\* list(daily_data.items())[:5]
MaxDays == 5

\* entry.get(key, default)
EntryGet(entry, key, default) == IF key \in DOMAIN entry THEN entry[key] ELSE default

\* the entries of forecast_data[:120] that are grouped: `if not dt_str: continue`
Dated(forecast_data) ==
    SelectSeq(SliceTo(forecast_data, HourlyCap),
              LAMBDA e : EntryGet(e, "datetime", None) # None)

\* the keys of daily_data in the order the dict holds them
RECURSIVE DatesInOrder(_)
DatesInOrder(entries) ==
    IF entries = <<>> THEN <<>>
    ELSE LET before == DatesInOrder(SubSeq(entries, 1, Len(entries) - 1))
             date == entries[Len(entries)].datetime.date
         IN IF \E i \in 1..Len(before) : before[i] = date THEN before ELSE Append(before, date)

\* daily_data[date_str]
HourlyEntriesOf(entries, date) == SelectSeq(entries, LAMBDA e : e.datetime.date = date)

RECURSIVE SumOf(_)
SumOf(values) == IF values = <<>> THEN 0 ELSE values[1].some + SumOf(Tail(values))

RECURSIVE MaxOf(_)
MaxOf(values) ==
    IF Len(values) = 1 THEN values[1].some ELSE Max(values[1].some, MaxOf(Tail(values)))

\* sum(e.get("precipitation", 0) for e in hourly_entries): 0 + None is a TypeError
SumPrecipitation(hourly_entries) ==
    LET values == [i \in 1..Len(hourly_entries) |->
                      EntryGet(hourly_entries[i], "precipitation", Some(0))]
    IN IF \E i \in 1..Len(values) : values[i] = None
       THEN [raise |-> "TypeError"]
       ELSE Some(SumOf(values))

\* max(e.get("precipitation_probability", 0) for e in hourly_entries): a single value
\* is returned as it is, of several every one is compared and None compares with nothing
MaxProbability(hourly_entries) ==
    LET values == [i \in 1..Len(hourly_entries) |->
                      EntryGet(hourly_entries[i], "precipitation_probability", Some(0))]
    IN IF Len(values) = 1 THEN values[1]
       ELSE IF \E i \in 1..Len(values) : values[i] = None
       THEN [raise |-> "TypeError"]
       ELSE Some(MaxOf(values))

\* midday_entries[0] if midday_entries else hourly_entries[0]
Representative(hourly_entries) ==
    LET midday_entries == SelectSeq(hourly_entries, LAMBDA e : e.datetime.hour \in {12, 13, 14})
    IN IF midday_entries # <<>> THEN midday_entries[1] ELSE hourly_entries[1]

\* one pass of the loop over daily_data: the Forecast appended, nothing when the
\* `except Exception: continue` of the loop is taken
BuildDay(hourly_entries) ==
    LET representative == Representative(hourly_entries)
        precipitation == SumPrecipitation(hourly_entries)
        probability == MaxProbability(hourly_entries)
    IN IF "raise" \in DOMAIN precipitation \/ "raise" \in DOMAIN probability
       THEN <<>>
       ELSE <<[datetime |-> representative.datetime,
               temperature |-> EntryGet(representative, "temperature", None),
               precipitation |-> precipitation,
               precipitation_probability |-> probability,
               wind_speed |-> EntryGet(representative, "wind_speed", None),
               wind_bearing |-> EntryGet(representative, "wind_direction", None),
               condition |-> EntryGet(representative, "condition", None)]>>

RECURSIVE BuildDays(_, _)
BuildDays(entries, dates) ==
    IF dates = <<>> THEN <<>>
    ELSE BuildDay(HourlyEntriesOf(entries, dates[1])) \o BuildDays(entries, Tail(dates))

\* MeteoSwissWeather.async_forecast_daily: [list |-> the Forecast entries], or None
async_forecast_daily(forecast_data) ==
    IF forecast_data = <<>> THEN None
    ELSE LET entries == Dated(forecast_data)
             ha_forecast == BuildDays(entries, SliceTo(DatesInOrder(entries), MaxDays))
         IN IF ha_forecast # <<>> THEN [list |-> ha_forecast] ELSE None

\* an hourly entry as the forecast coordinator builds it; a value of AbsentField
\* leaves the key out
HourlyPoint(date, hour, precipitation, probability) ==
    LET keys == {"datetime", "temperature", "condition"}
                    \cup (IF precipitation = AbsentField THEN {} ELSE {"precipitation"})
                    \cup (IF probability = AbsentField THEN {} ELSE {"precipitation_probability"})
    IN [k \in keys |->
          CASE k = "datetime" -> [date |-> date, hour |-> hour]
            [] k = "temperature" -> Some(100 * date + hour)
            [] k = "condition" -> Str(IF hour < 12 THEN <<"cloudy">> ELSE <<"sunny">>)
            [] k = "precipitation" -> precipitation
            [] k = "precipitation_probability" -> probability]

HourlyPoints ==
    {HourlyPoint(date, hour, precipitation, probability) :
        date \in 1..2, hour \in {9, 12, 13},
        precipitation \in {Some(2), None, AbsentField},
        probability \in {Some(30), None, AbsentField}}

\* six days of one point each, and a day of four points one of which has no datetime
SixDays == [i \in 1..6 |-> HourlyPoint(i, 9, Some(i), Some(10 * i))]

FullDay ==
    <<HourlyPoint(1, 9, Some(1), Some(20)), [temperature |-> Some(0)],
      HourlyPoint(1, 13, Some(2), Some(70)), HourlyPoint(1, 12, Some(4), AbsentField),
      HourlyPoint(2, 9, AbsentField, Some(40))>>

HourlyForecasts ==
    UNION {[1..n -> HourlyPoints] : n \in 0..MaxPoints} \cup {SixDays, FullDay}

\* the weather entity asked for the daily forecast while the forecast coordinator
\* holds daily.forecast_data
AsyncForecastDaily ==
    /\ daily # NoTick
    /\ daily.returns = NoTick
    /\ daily' = [daily EXCEPT !.returns = async_forecast_daily(daily.forecast_data)]
    /\ UNCHANGED <<cached_data, pollen, open_meteo, app, csv, plz>>
    /\ UNCHANGED <<cacheVars, retryVars, forecastVars, currentVars, alertVars, entryVars,
                   stationVars>>

InitDaily ==
    /\ CacheIdle /\ RetryIdle /\ ForecastIdle /\ CurrentIdle
    /\ AlertsIdle /\ EntryIdle /\ StationsIdle
    /\ daily \in {[forecast_data |-> d, returns |-> NoTick] : d \in HourlyForecasts}
    /\ cached_data = [k \in {} |-> None]
    /\ pollen = NoTick
    /\ open_meteo = NoTick
    /\ app = NoTick
    /\ csv = NoTick
    /\ plz = NoTick

NextDaily == AsyncForecastDaily

SpecDaily == InitDaily /\ [][NextDaily]_vars

DailyReturned == daily # NoTick /\ daily.returns # NoTick

\* the values that the points carry under `key`
PresentValues(points, key) ==
    SelectSeq([i \in 1..Len(points) |-> EntryGet(points[i], key, None)],
              LAMBDA v : v # None)

\* the daily entry days[i] is the synthesis of the points of the i-th date
DayIsSynthesisOf(day, points) ==
    /\ day.datetime = Representative(points).datetime
    /\ day.temperature = Representative(points).temperature
    /\ day.condition = Representative(points).condition
    /\ day.precipitation = Some(SumOf(PresentValues(points, "precipitation")))
    /\ PresentValues(points, "precipitation_probability") # <<>>
          => day.precipitation_probability
                = Some(MaxOf(PresentValues(points, "precipitation_probability")))

DailyIsSynthesis(forecast_data, returned) ==
    LET entries == Dated(forecast_data)
        dates == DatesInOrder(entries)
        days == IF returned = None THEN <<>> ELSE returned.list
    IN /\ Len(days) = Min(MaxDays, Len(dates))
       /\ \A i \in 1..Len(days) :
             /\ days[i].datetime.date = dates[i]
             /\ DayIsSynthesisOf(days[i], HourlyEntriesOf(entries, dates[i]))

\* C27: the daily forecast has one entry per distinct calendar date of the hourly
\* data (at most 5, in order of first appearance); its precipitation is the sum and
\* its probability the maximum over that date's points, its temperature and condition
\* are those of the first point at hour 12, 13 or 14, else of the date's first point;
\* also when some points carry no precipitation or probability value.
C27_DailySynthesis ==
    DailyReturned => DailyIsSynthesis(daily.forecast_data, daily.returns)

\* no point of the hourly data has a precipitation or probability key that holds None
NoNullValues(forecast_data) ==
    \A i \in 1..Len(forecast_data) :
       /\ EntryGet(forecast_data[i], "precipitation", Some(0)) # None
       /\ EntryGet(forecast_data[i], "precipitation_probability", Some(0)) # None

C27_HoldsWithoutNullValues ==
    (DailyReturned /\ NoNullValues(daily.forecast_data))
        => DailyIsSynthesis(daily.forecast_data, daily.returns)

\* a daily forecast was built from more than five dates, and one from a day with a
\* midday point that is not the day's first point
DailyOfSixDays == DailyReturned /\ daily.forecast_data = SixDays /\ daily.returns # None

DailyOfFullDay == DailyReturned /\ daily.forecast_data = FullDay /\ daily.returns # None

(***************************************************************************)
(* pollen.py: MeteoSwissPollenAPI.  A page is kept as what re.findall      *)
(* yields on its text for each of the three patterns, in the order of the  *)
(* patterns: the digits captured after Stufe/Level, pollen and intensity.  *)
(***************************************************************************)
MaxPollenCalls == 2

POLLEN_BIRCH == "birch"
POLLEN_HAZEL == "hazel"
POLLEN_ALDER == "alder"
POLLEN_GRASS == "grass"
POLLEN_AMBROSIA == "ambrosia"

UrlPrefix ==
    <<"h", "t", "t", "p", "s", ":", "/", "/", "w", "w", "w", ".", "m", "e", "t", "e", "o", "s", "w",
    "i", "s", "s", ".", "a", "d", "m", "i", "n", ".", "c", "h", "/", "e", "t", "c", "/", "c", "l",
    "i", "m", "a", "t", "e", "/", "a", "m", "b", "i", "e", "n", "t", "/">>

UrlSuffix ==
    <<"-", "p", "o", "l", "l", "e", "n", "/", "f", "o", "r", "e", "c", "a", "s", "t">>

\* pollen_urls, in the order of the list
PollenPages ==
    <<<<"b", "i", "r", "c", "h">>, <<"h", "a", "z", "e", "l">>, <<"a", "l", "d", "e", "r">>, <<"a",
      "s", "h">>, <<"g", "r", "a", "s", "s">>, <<"r", "a", "g", "w", "e", "e", "d">>>>

UrlOf(page) == UrlPrefix \o page \o UrlSuffix

\* sub in text
Contains(text, sub) ==
    \E i \in 1..(Len(text) - Len(sub) + 1) : SubSeq(text, i, i + Len(sub) - 1) = sub

\* MeteoSwissPollenAPI._url_to_pollen_type (the URLs are lower case already)
url_to_pollen_type(url) ==
    IF Contains(url, <<"b", "i", "r", "c", "h">>) THEN Some(POLLEN_BIRCH)
    ELSE IF Contains(url, <<"h", "a", "z", "e", "l">>) THEN Some(POLLEN_HAZEL)
    ELSE IF Contains(url, <<"a", "l", "d", "e", "r">>) THEN Some(POLLEN_ALDER)
    ELSE IF Contains(url, <<"a", "s", "h">>) THEN Some(POLLEN_ALDER)
    ELSE IF Contains(url, <<"g", "r", "a", "s", "s">>) THEN Some(POLLEN_GRASS)
    ELSE IF Contains(url, <<"r", "a", "g", "w", "e", "e", "d">>) THEN Some(POLLEN_AMBROSIA)
    ELSE None

\* MeteoSwissPollenAPI._value_to_level
value_to_level(value) ==
    CASE value = 0 -> "None"
      [] value = 1 -> "Low"
      [] value = 2 -> "Moderate"
      [] value = 3 -> "High"
      [] value = 4 -> "Very High"
      [] OTHER -> "Unknown"

\* PollenMeasurement(value=value, level=level, level_name=level, timestamp=timestamp)
PollenMeasurement(value, t) ==
    [value |-> value, level |-> value_to_level(value), level_name |-> value_to_level(value),
     timestamp |-> t]

\* MeteoSwissPollenAPI._parse_pollen_page: the first pattern with matches whose first
\* digit is from 0 to 4 decides
RECURSIVE ParsePatterns(_, _)
ParsePatterns(matches, t) ==
    IF matches = <<>> THEN None
    ELSE IF matches[1] # <<>> /\ matches[1][1] \in 0..4
    THEN PollenMeasurement(matches[1][1], t)
    ELSE ParsePatterns(Tail(matches), t)

parse_pollen_page(text, t) == ParsePatterns(text, t)

\* what a page answers: an exception of session.get, a status, and the page
PageRaises == [kind |-> "raise"]

PageStatus(status) == [kind |-> "status", status |-> status]

PageOf(text) == [kind |-> "status", status |-> 200, text |-> text]

\* self._url_to_pollen_type(url) for the URLs of pollen_urls, by position
PollenTypeOfPage ==
    [i \in 1..Len(PollenPages) |-> url_to_pollen_type(UrlOf(PollenPages[i]))]

\* one pass of the loop over pollen_urls, for the URL at position i
FetchPage(pollen_data, i, answer, t) ==
    IF answer.kind = "raise" \/ answer.status # 200 THEN pollen_data
    ELSE LET measurement == parse_pollen_page(answer.text, t)
             pollen_type == PollenTypeOfPage[i]
         IN IF measurement # None /\ pollen_type # None
            THEN [k \in DOMAIN pollen_data \cup {pollen_type.some} |->
                     IF k = pollen_type.some THEN measurement ELSE pollen_data[k]]
            ELSE pollen_data

RECURSIVE FetchPages(_, _, _, _)
FetchPages(pollen_data, i, answers, t) ==
    IF i > Len(PollenPages) THEN pollen_data
    ELSE FetchPages(FetchPage(pollen_data, i, answers[i], t), i + 1, answers, t)

\* the pages with a level, without one, with a first match out of range, and failing
PageAnswers ==
    {PageRaises, PageStatus(500), PageOf(<<<<>>, <<>>, <<>>>>),
     PageOf(<<<<1>>, <<>>, <<>>>>), PageOf(<<<<7>>, <<>>, <<3, 1>>>>)}

\* no page yields a level
NoPollenAnswers == [i \in 1..6 |-> IF i % 2 = 0 THEN PageRaises ELSE PageStatus(404)]

PollenAnswers ==
    {<<birch, PageOf(<<<<>>, <<4>>, <<>>>>), alder, ash, PageOf(<<<<0>>, <<>>, <<>>>>), ragweed>> :
        birch \in {PageStatus(404), PageOf(<<<<2>>, <<>>, <<>>>>)},
        alder \in PageAnswers, ash \in PageAnswers,
        ragweed \in {PageRaises, PageOf(<<<<9>>, <<8>>, <<>>>>)}}
      \cup {NoPollenAnswers}

PostalCodes == {<<"8", "0", "0", "1">>, <<"3", "0", "0", "0">>}

PollenCalls == IF pollen = NoTick THEN 0 ELSE pollen.calls

\* cache_key = f"pollen:{postal_code}"
PollenCacheKey(postal_code) == <<"p", "o", "l", "l", "e", "n", ":">> \o postal_code

\* a cache check that takes an empty mapping for no entry
PollenCached_unless_empty(cache_key) ==
    cache_key \in DOMAIN cached_data /\ DOMAIN cached_data[cache_key] # {}

\* if cache_key in self._cached_data
PollenCached(cache_key) == cache_key \in DOMAIN cached_data

\* MeteoSwissPollenAPI.get_pollen_data(postal_code), the pages answering `answers`
GetPollenData(postal_code, answers) ==
    /\ PollenCalls < MaxPollenCalls
    /\ LET cache_key == PollenCacheKey(postal_code)
           cached == PollenCached(cache_key)
           pollen_data == IF cached THEN cached_data[cache_key]
                          ELSE FetchPages([k \in {} |-> None], 1, answers, now)
       IN /\ pollen' = [calls |-> PollenCalls + 1, postal_code |-> postal_code,
                        answers |-> answers,
                        requests |-> IF cached THEN 0 ELSE Len(PollenPages),
                        returns |-> pollen_data]
          /\ cached_data' = IF cached THEN cached_data
                            ELSE [k \in DOMAIN cached_data \cup {cache_key} |->
                                     IF k = cache_key THEN pollen_data ELSE cached_data[k]]
    /\ UNCHANGED <<daily, open_meteo, app, csv, plz>>
    /\ UNCHANGED <<cacheVars, retryVars, forecastVars, currentVars, alertVars, entryVars,
                   stationVars>>

\* MeteoSwissPollenAPI.clear_cache
ClearPollenCache ==
    /\ cached_data # [k \in {} |-> None]
    /\ cached_data' = [k \in {} |-> None]
    /\ UNCHANGED <<daily, pollen, open_meteo, app, csv, plz>>
    /\ UNCHANGED <<cacheVars, retryVars, forecastVars, currentVars, alertVars, entryVars,
                   stationVars>>

InitPollen == CacheIdle /\ RetryIdle /\ ForecastIdle /\ CurrentIdle /\ RestIdle

NextPollen ==
    \/ \E postal_code \in PostalCodes, answers \in PollenAnswers :
          GetPollenData(postal_code, answers)
    \/ ClearPollenCache

SpecPollen == InitPollen /\ [][NextPollen]_vars

\* the page of a species: the position in pollen_urls of the page named after it
\* (ragweed is ambrosia)
OwnPage(pollen_type) ==
    CASE pollen_type = POLLEN_BIRCH -> 1
      [] pollen_type = POLLEN_HAZEL -> 2
      [] pollen_type = POLLEN_ALDER -> 3
      [] pollen_type = POLLEN_GRASS -> 5
      [] pollen_type = POLLEN_AMBROSIA -> 6

\* what the page of the species yields on its own
OwnMeasurement(answers, pollen_type) ==
    LET answer == answers[OwnPage(pollen_type)]
    IN IF answer.kind = "raise" \/ answer.status # 200 THEN None
       ELSE parse_pollen_page(answer.text, now)

PollenTypes == {POLLEN_BIRCH, POLLEN_HAZEL, POLLEN_ALDER, POLLEN_GRASS, POLLEN_AMBROSIA}

\* the call scraped the pages and returned, for every species, what its own page yields
ScrapedFromOwnPages ==
    /\ DOMAIN pollen.returns \subseteq PollenTypes
    /\ \A pollen_type \in PollenTypes :
          IF OwnMeasurement(pollen.answers, pollen_type) = None
          THEN pollen_type \notin DOMAIN pollen.returns
          ELSE /\ pollen_type \in DOMAIN pollen.returns
               /\ pollen.returns[pollen_type] = OwnMeasurement(pollen.answers, pollen_type)
               /\ pollen.returns[pollen_type].value \in 0..4
               /\ pollen.returns[pollen_type].level_name
                     = value_to_level(pollen.returns[pollen_type].value)

Scraped == pollen # NoTick /\ pollen.requests > 0

\* C28: a scraping call returns a mapping whatever the single pages do (status other
\* than 200, exception, no level found); a species whose page yields a level has an
\* entry, and every entry holds the level from 0 to 4, with its level name, that was
\* parsed from the page of that species.
C28_SpeciesFromOwnPage == Scraped => ScrapedFromOwnPages

\* the ash page yields no level
AshPageFails ==
    LET answer == pollen.answers[4]
    IN answer.kind = "raise" \/ answer.status # 200
          \/ parse_pollen_page(answer.text, now) = None

C28_HoldsWhenAshPageFails == (Scraped /\ AshPageFails) => ScrapedFromOwnPages

\* a scraping call lost pages to a status, an exception and a parse miss and still
\* returned the other species
SoftFailureSeen ==
    /\ Scraped
    /\ pollen.answers[1].kind = "status" /\ pollen.answers[1].status = 404
    /\ pollen.answers[3] = PageOf(<<<<>>, <<>>, <<>>>>)
    /\ pollen.answers[6] = PageRaises
    /\ DOMAIN pollen.returns = {POLLEN_HAZEL, POLLEN_GRASS}

(***************************************************************************)
(* forecast_coordinator.py: _fetch_open_meteo_forecast.  A timestamp of    *)
(* the "time" series is an ISO text: with a UTC offset ("aware", the       *)
(* instant it names counted in hours), without one ("naive", its wall      *)
(* clock counted in hours), or a text fromisoformat rejects ("garbage").   *)
(* Precipitation is in tenths of a millimetre.                             *)
(***************************************************************************)
\* range(start_idx, min(start_idx + 24, len(times)))
ForecastHours == 24

\* MeteoSwissForecastCoordinator._map_open_meteo_condition
map_open_meteo_condition(precip_prob, precip) ==
    IF precip # None /\ precip.some # 0 /\ precip.some > 25 THEN "pouring"
    ELSE IF precip # None /\ precip.some # 0 /\ precip.some > 0 THEN "rainy"
    ELSE IF precip_prob # None /\ precip_prob.some # 0 /\ precip_prob.some > 60 THEN "rainy"
    ELSE "partlycloudy"

\* the loop that finds start_idx, from position i (counted from 1) on: the position
\* of the first timestamp that is >= now, 1 when there is none; fromisoformat of a
\* text without offset yields a naive datetime, and comparing it with the aware now
\* raises TypeError, which `except ValueError` lets through
RECURSIVE FindStart(_, _, _)
FindStart(times, i, t) ==
    IF i > Len(times) THEN Some(1)
    ELSE IF times[i].kind = "garbage" THEN FindStart(times, i + 1, t)
    ELSE IF times[i].kind = "naive" THEN [raise |-> "TypeError"]
    ELSE IF times[i].hour >= t THEN Some(i)
    ELSE FindStart(times, i + 1, t)

\* series[i] if i < len(series) else None
ItemOrNone(series, i) == IF i <= Len(series) THEN series[i] ELSE None

\* MeteoSwissForecastCoordinator._fetch_open_meteo_forecast, the API answering
\* `response` at time t (hours)
fetch_open_meteo_forecast(response, t) ==
    IF response.status # 200 THEN Raised("UpdateFailed")
    ELSE IF "hourly" \notin DOMAIN response.json THEN Raised("UpdateFailed")
    ELSE LET hourly == response.json.hourly
             times == hourly.time
             start == FindStart(times, 1, t)
         IN IF "raise" \in DOMAIN start THEN Raised(start.raise)
            ELSE Returns(
                   [j \in 1..(Min(start.some - 1 + ForecastHours, Len(times)) - (start.some - 1)) |->
                      LET i == start.some - 1 + j
                      IN [datetime |-> times[i],
                          temperature |-> ItemOrNone(hourly.temperature_2m, i),
                          precipitation_probability |->
                              ItemOrNone(hourly.precipitation_probability, i),
                          precipitation |-> ItemOrNone(hourly.precipitation, i),
                          wind_speed |-> ItemOrNone(hourly.windspeed_10m, i),
                          wind_direction |-> ItemOrNone(hourly.winddirection_10m, i),
                          condition |-> map_open_meteo_condition(
                                            ItemOrNone(hourly.precipitation_probability, i),
                                            ItemOrNone(hourly.precipitation, i))]])

\* an hourly series of n timestamps of one kind from hour `first` on; the value
\* series are one shorter when `short`, and the first timestamp is unreadable when `bad`
HourlySeries(kind, first, n, short, bad) ==
    LET m == IF short /\ n > 0 THEN n - 1 ELSE n
    IN [time |-> [i \in 1..n |-> IF bad /\ i = 1 THEN [kind |-> "garbage"]
                                 ELSE [kind |-> kind, hour |-> first + i - 1]],
        temperature_2m |-> [i \in 1..m |-> Some(10 * i)],
        precipitation_probability |-> [i \in 1..m |-> Some(20 * (i % 5))],
        precipitation |-> [i \in 1..m |-> Some(10 * (i % 4))],
        windspeed_10m |-> [i \in 1..m |-> Some(i)],
        winddirection_10m |-> [i \in 1..m |-> Some(10 * i)]]

SeriesLengths == {0, 3, 24, 30}

OpenMeteoResponses ==
    {[status |-> 500], [status |-> 200, json |-> [error |-> TRUE]]}
      \cup {[status |-> 200, json |-> [hourly |-> HourlySeries(kind, first, n, short, bad)]] :
              kind \in {"aware", "naive"}, first \in {0, 5}, n \in SeriesLengths,
              short \in BOOLEAN, bad \in BOOLEAN}

OpenMeteoClocks == {0, 2, 6, 40}

\* the coordinator asks the generic API at time open_meteo.clock
FetchOpenMeteoForecast ==
    /\ open_meteo # NoTick
    /\ open_meteo.outcome = NoTick
    /\ open_meteo' = [open_meteo EXCEPT
                         !.outcome = fetch_open_meteo_forecast(open_meteo.response,
                                                               open_meteo.clock)]
    /\ UNCHANGED <<daily, cached_data, pollen, app, csv, plz>>
    /\ UNCHANGED <<cacheVars, retryVars, forecastVars, currentVars, alertVars, entryVars,
                   stationVars>>

InitOpenMeteo ==
    /\ CacheIdle /\ RetryIdle /\ ForecastIdle /\ CurrentIdle
    /\ AlertsIdle /\ EntryIdle /\ StationsIdle
    /\ open_meteo \in {[response |-> r, clock |-> t, outcome |-> NoTick] :
                          r \in OpenMeteoResponses, t \in OpenMeteoClocks}
    /\ daily = NoTick
    /\ cached_data = [k \in {} |-> None]
    /\ pollen = NoTick
    /\ app = NoTick
    /\ csv = NoTick
    /\ plz = NoTick

NextOpenMeteo == FetchOpenMeteoForecast

SpecOpenMeteo == InitOpenMeteo /\ [][NextOpenMeteo]_vars

\* the API answered with an hourly series and the fetch is over
HourlyAnswered ==
    /\ open_meteo # NoTick
    /\ open_meteo.outcome # NoTick
    /\ open_meteo.response.status = 200
    /\ "hourly" \in DOMAIN open_meteo.response.json

\* the timestamp names a time that is >= t (a timestamp without offset read as it stands)
AtOrAfter(timestamp, t) == timestamp.kind # "garbage" /\ timestamp.hour >= t

\* the result is the run of at most 24 entries from the first timestamp >= now on,
\* from the first entry on when there is none
IsNextHours(times, t, outcome) ==
    LET found == {i \in 1..Len(times) : AtOrAfter(times[i], t)}
        first == IF found = {} THEN 1 ELSE CHOOSE i \in found : \A k \in found : i <= k
    IN /\ "returns" \in DOMAIN outcome
       /\ Len(outcome.returns) = Max(0, Min(ForecastHours, Len(times) - first + 1))
       /\ \A j \in 1..Len(outcome.returns) : outcome.returns[j].datetime = times[first + j - 1]

\* C29: for every hourly series the generic API answers, with timestamps with or
\* without a UTC offset, the forecast is the contiguous run of at most 24 entries
\* that starts at the first entry whose timestamp is >= now, or at the first entry
\* when no timestamp is >= now.
C29_NextHoursWindow ==
    HourlyAnswered
        => IsNextHours(open_meteo.response.json.hourly.time, open_meteo.clock,
                       open_meteo.outcome)

\* no timestamp of the series is without UTC offset
AllWithOffset(times) == \A i \in 1..Len(times) : times[i].kind # "naive"

C29_HoldsForOffsetTimestamps ==
    (HourlyAnswered /\ AllWithOffset(open_meteo.response.json.hourly.time))
        => IsNextHours(open_meteo.response.json.hourly.time, open_meteo.clock,
                       open_meteo.outcome)

\* a run of 24 entries was cut out of a longer series, after its start
WindowCut ==
    /\ HourlyAnswered
    /\ "returns" \in DOMAIN open_meteo.outcome
    /\ Len(open_meteo.response.json.hourly.time) = 30
    /\ Len(open_meteo.outcome.returns) = ForecastHours
    /\ open_meteo.outcome.returns[1].datetime.hour = 6

(***************************************************************************)
(* forecast_coordinator.py: _fetch_meteoswiss_app_forecast.  graph.start   *)
(* is in milliseconds, the clock in minutes; the datetime of an entry is   *)
(* kept as the hour it names, counted from the epoch.                      *)
(***************************************************************************)
MsPerHour == 3600000

\* range(24) of the daily fallback
HoursPerDay == 24

\* forecast[:2]
FallbackDays == 2

\* MeteoSwissForecastCoordinator._map_meteoswiss_icon
map_meteoswiss_icon(icon) ==
    IF icon = None THEN "partlycloudy"
    ELSE CASE icon.some = 1 -> "sunny"
           [] icon.some \in {2, 3} -> "partlycloudy"
           [] icon.some \in {4, 5} -> "cloudy"
           [] icon.some = 6 -> "rainy"
           [] icon.some = 20 -> "pouring"
           [] icon.some = 8 -> "snowy"
           [] icon.some = 12 -> "lightning"
           [] OTHER -> "partlycloudy"

\* list(chain.from_iterable(repeat(x, 3) for x in series))
Expand3h(series) == [i \in 1..(3 * Len(series)) |-> series[((i - 1) \div 3) + 1]]

\* graph.get(key, [])
SeriesOf(graph, key) == IF key \in DOMAIN graph THEN graph[key] ELSE <<>>

\* the branch `if start_timestamp:`; i runs over range(offset, min(offset + 24, len))
GraphHours(graph, t) ==
    LET now_hour == t \div 60
        start == graph.start.some \div MsPerHour
        offset == IF now_hour > start THEN now_hour - start ELSE 0
        temp_mean_1h == SeriesOf(graph, "temperatureMean1h")
        precip_1h == SeriesOf(graph, "precipitation1h")
        expanded_icons == Expand3h(SeriesOf(graph, "weatherIcon3h"))
        expanded_precip_prob == Expand3h(SeriesOf(graph, "precipitationProbability3h"))
        last == Min(offset + ForecastHours, Len(temp_mean_1h))
    IN [j \in 1..Max(0, last - offset) |->
          LET i == offset + j - 1
          IN [datetime |-> [hour |-> start + i],
              temperature |-> ItemOrNone(temp_mean_1h, i + 1),
              precipitation |-> ItemOrNone(precip_1h, i + 1),
              precipitation_probability |-> ItemOrNone(expanded_precip_prob, i + 1),
              condition |-> map_meteoswiss_icon(ItemOrNone(expanded_icons, i + 1))]]

\* the hourly entries made of one day of the daily forecast: none when dayDate is
\* missing or strptime rejects it
DayHours(day) ==
    IF "dayDate" \notin DOMAIN day \/ day.dayDate.kind = "garbage" THEN <<>>
    ELSE [h \in 1..HoursPerDay |->
            [datetime |-> [hour |-> HoursPerDay * day.dayDate.day + (h - 1)],
             temperature |-> IF h - 1 < 12 THEN EntryGet(day, "temperatureMax", None)
                             ELSE EntryGet(day, "temperatureMin", None),
             precipitation |-> EntryGet(day, "precipitation", None),
             condition |-> map_meteoswiss_icon(EntryGet(day, "iconDay", None))]]

\* the branch `elif forecast:`
RECURSIVE DailyFallback(_)
DailyFallback(days) ==
    IF days = <<>> THEN <<>> ELSE DayHours(days[1]) \o DailyFallback(Tail(days))

\* MeteoSwissForecastCoordinator._fetch_meteoswiss_app_forecast, the API answering
\* `response` at time t (minutes)
fetch_meteoswiss_app_forecast(code, response, t) ==
    IF code = None \/ code.str = <<>> THEN Raised("UpdateFailed")
    ELSE IF response.status # 200 THEN Raised("UpdateFailed")
    ELSE IF "error" \in DOMAIN response.json THEN Raised("UpdateFailed")
    ELSE LET graph == IF "graph" \in DOMAIN response.json THEN response.json.graph
                      ELSE [k \in {} |-> None]
             forecast == IF "forecast" \in DOMAIN response.json
                         THEN response.json.forecast ELSE <<>>
         IN IF "start" \in DOMAIN graph /\ graph.start # None /\ graph.start.some # 0
            THEN Returns(GraphHours(graph, t))
            ELSE IF forecast # <<>>
            THEN Returns(DailyFallback(SliceTo(forecast, FallbackDays)))
            ELSE Returns(<<>>)

\* a graph that starts at `start` with n hourly and m 3-hourly values
GraphOf(start, n, m) ==
    [start |-> Some(start),
     temperatureMean1h |-> [i \in 1..n |-> Some(10 * i)],
     precipitation1h |-> [i \in 1..n |-> Some(i % 3)],
     precipitationProbability3h |-> [i \in 1..m |-> Some(10 * i)],
     weatherIcon3h |-> [i \in 1..m |-> Some(<<1, 4, 6>>[(i % 3) + 1])]]

DayOf(day) ==
    [dayDate |-> [kind |-> "date", day |-> day], temperatureMax |-> Some(200 + day),
     temperatureMin |-> Some(100 + day), precipitation |-> Some(day), iconDay |-> Some(6)]

DayWithBadDate == [dayDate |-> [kind |-> "garbage"], temperatureMax |-> Some(1)]

GraphLengths == {0, 6, 27}

AppGraphs ==
    {GraphOf(start, n, m) : start \in {0, 10 * MsPerHour, 10 * MsPerHour + 1800000},
                            n \in GraphLengths, m \in {1, 9}}
      \cup {[start |-> None]}

AppForecasts ==
    {<<>>, <<DayOf(1)>>, <<DayOf(1), DayOf(2), DayOf(3)>>, <<DayWithBadDate, DayOf(2)>>}

AppResponses ==
    {[status |-> 503], [status |-> 200, json |-> [error |-> TRUE]]}
      \cup {[status |-> 200, json |-> [forecast |-> forecast]] : forecast \in AppForecasts}
      \cup {[status |-> 200, json |-> [graph |-> graph, forecast |-> forecast]] :
              graph \in AppGraphs, forecast \in AppForecasts}

AppClocks == {9 * 60, 12 * 60 + 30, 45 * 60}

AppPostCodes == {None, Str(<<"8", "0", "0", "1">>)}

\* the coordinator asks the app API at time app.clock
FetchMeteoSwissAppForecast ==
    /\ app # NoTick
    /\ app.outcome = NoTick
    /\ app' = [app EXCEPT
                  !.outcome = fetch_meteoswiss_app_forecast(app.post_code, app.response,
                                                            app.clock)]
    /\ UNCHANGED <<daily, cached_data, pollen, open_meteo, csv, plz>>
    /\ UNCHANGED <<cacheVars, retryVars, forecastVars, currentVars, alertVars, entryVars,
                   stationVars>>

InitApp ==
    /\ CacheIdle /\ RetryIdle /\ ForecastIdle /\ CurrentIdle
    /\ AlertsIdle /\ EntryIdle /\ StationsIdle
    /\ app \in {[post_code |-> code, response |-> r, clock |-> t, outcome |-> NoTick] :
                   code \in AppPostCodes, r \in AppResponses, t \in AppClocks}
    /\ daily = NoTick
    /\ cached_data = [k \in {} |-> None]
    /\ pollen = NoTick
    /\ open_meteo = NoTick
    /\ csv = NoTick
    /\ plz = NoTick

NextApp == FetchMeteoSwissAppForecast

SpecApp == InitApp /\ [][NextApp]_vars

\* the app API answered with a forecast document and the fetch is over
AppAnswered ==
    /\ app # NoTick
    /\ app.outcome # NoTick
    /\ app.post_code # None
    /\ app.response.status = 200
    /\ "error" \notin DOMAIN app.response.json

AppGraph ==
    IF "graph" \in DOMAIN app.response.json THEN app.response.json.graph
    ELSE [start |-> None]

\* the hours of the graph series that are left at the time of the fetch
GraphHoursLeft ==
    IF AppGraph.start = None \/ AppGraph.start.some = 0 THEN 0
    ELSE LET start == AppGraph.start.some \div MsPerHour
             passed == Max(0, (app.clock \div 60) - start)
         IN Max(0, Len(SeriesOf(AppGraph, "temperatureMean1h")) - passed)

\* every entry takes the 3-hourly values of its hour of the graph, at floor(i / 3)
ExpandedByRepetition(entries) ==
    LET start == AppGraph.start.some \div MsPerHour
    IN \A j \in 1..Len(entries) :
          LET i == entries[j].datetime.hour - start
          IN /\ entries[j].precipitation_probability
                   = ItemOrNone(AppGraph.precipitationProbability3h, (i \div 3) + 1)
             /\ entries[j].condition
                   = map_meteoswiss_icon(ItemOrNone(AppGraph.weatherIcon3h, (i \div 3) + 1))

\* the days of the daily forecast that are used, and those of them with a date
UsedDays == SliceTo(app.response.json.forecast, FallbackDays)

DaysWithDate == SelectSeq(UsedDays, LAMBDA day : day.dayDate.kind = "date")

SourceThreeResult ==
    /\ "returns" \in DOMAIN app.outcome
    /\ IF GraphHoursLeft > 0
       THEN /\ Len(app.outcome.returns) = Min(ForecastHours, GraphHoursLeft)
            /\ ExpandedByRepetition(app.outcome.returns)
       ELSE /\ app.outcome.returns = DailyFallback(UsedDays)
            /\ Len(app.outcome.returns) = HoursPerDay * Len(DaysWithDate)

\* C30: forecast source 3 returns the hours of the graph series, every hour i with
\* the 3-hourly values at index floor(i / 3); whenever the graph yields no hourly
\* points (no graph, or a graph without usable hourly values) it returns the daily
\* forecast instead, as 24 hourly points per day.
C30_GraphElseDaily == AppAnswered => SourceThreeResult

\* the graph is absent or has no start, or it has hours left
C30_HoldsUnlessGraphIsEmpty ==
    (AppAnswered /\ (GraphHoursLeft > 0 \/ AppGraph.start = None \/ AppGraph.start.some = 0))
        => SourceThreeResult

\* the graph gave a full window whose hours repeat the 3-hourly values, and the daily
\* forecast gave two days of 24 hours
GraphWindowSeen ==
    /\ AppAnswered /\ GraphHoursLeft > ForecastHours
    /\ Len(app.outcome.returns) = ForecastHours
    /\ app.outcome.returns[1].precipitation_probability
          = app.outcome.returns[2].precipitation_probability

DailyFallbackSeen ==
    /\ AppAnswered /\ GraphHoursLeft = 0
    /\ Len(app.outcome.returns) = FallbackDays * HoursPerDay

(***************************************************************************)
(* coordinator.py: _async_download_and_parse_csv and the end of the tick.  *)
(* The text of the readings file is kept as its lines (the pieces between  *)
(* "\n"), a line as its cells (the pieces between ";"), a cell as its      *)
(* characters; the name of a column is one token.                          *)
(***************************************************************************)
\* line.strip() is empty
BlankLine(line) == Len(line) = 1 /\ Strip(line[1]) = <<>>

RECURSIVE DropBlankHead(_)
DropBlankHead(lines) ==
    IF lines # <<>> /\ BlankLine(lines[1]) THEN DropBlankHead(Tail(lines)) ELSE lines

RECURSIVE DropBlankTail(_)
DropBlankTail(lines) ==
    IF lines # <<>> /\ BlankLine(lines[Len(lines)])
    THEN DropBlankTail(SubSeq(lines, 1, Len(lines) - 1))
    ELSE lines

\* content.strip().split("\n"): the white space at both ends goes, blank lines with
\* it; the empty text splits into one empty line
StripSplit(content) ==
    LET kept == DropBlankTail(DropBlankHead(content))
    IN IF kept = <<>> THEN <<<<<<>>>>>> ELSE kept

\* the row taken when the first line after the header is read instead of the last
FirstDataRow(lines) ==
    LET found == {i \in 2..Len(lines) : ~BlankLine(lines[i])}
    IN IF found = {} THEN None ELSE Some(CHOOSE i \in found : \A k \in found : i <= k)

\* for line in reversed(lines[1:]): if line.strip(): data_row = line.strip(); break
LastDataRow(lines) ==
    LET found == {i \in 2..Len(lines) : ~BlankLine(lines[i])}
    IN IF found = {} THEN None ELSE Some(CHOOSE i \in found : \A k \in found : i >= k)

\* h.strip() of a header cell
HeaderName(cell) == IF Strip(cell) = <<>> THEN "" ELSE Strip(cell)[1]

\* row_dict[header] = values[i] for every i < len(values), values stripped
RowDict(header_line, data_line) ==
    LET n == Min(Len(header_line), Len(data_line))
    IN [h \in {HeaderName(header_line[i]) : i \in 1..n} |->
          Str(Strip(data_line[CHOOSE i \in 1..n :
                                 /\ HeaderName(header_line[i]) = h
                                 /\ \A k \in 1..n : HeaderName(header_line[k]) = h => k <= i]))]

\* MeteoSwissDataUpdateCoordinator._async_download_and_parse_csv at time t
download_and_parse_csv(response, t) ==
    IF response.status # 200 THEN None
    ELSE LET lines == StripSplit(response.content)
             data_row == LastDataRow(lines)
         IN IF Len(lines) < 2 \/ data_row = None THEN None
            ELSE parse_csv_row(RowDict(lines[1], lines[data_row.some]), t)

\* _async_update_data after the download: UpdateFailed for None and for {}, else the
\* reading that is cached and returned
update_data_outcome(parsed_data) ==
    IF parsed_data = None \/ parsed_data = EmptyDict THEN UpdateFailed
    ELSE [kind |-> "data", value |-> parsed_data, from |-> "fetch"]

RECURSIVE SeqOfSet(_)
SeqOfSet(S) == IF S = {} THEN <<>> ELSE LET x == CHOOSE x \in S : TRUE
                                        IN <<x>> \o SeqOfSet(S \ {x})

\* the header line and the data line that hold `row`
HeaderLineOf(row) == [i \in 1..Cardinality(DOMAIN row) |-> <<SeqOfSet(DOMAIN row)[i]>>]

DataLineOf(row, columns) ==
    [i \in 1..Cardinality(columns) |->
        IF SeqOfSet(columns)[i] \in DOMAIN row THEN row[SeqOfSet(columns)[i]].str ELSE <<"x">>]

Padded(line) == [i \in 1..Len(line) |-> <<" ">> \o line[i] \o <<" ">>]

\* an earlier row of the file
OlderRow == RowOf("full", 9)

FileLayouts == {"single", "rows", "trailing_blank", "blank_between", "padded"}

\* the lines of a readings file that ends with `row`
FileOf(row, layout) ==
    LET header == HeaderLineOf(row)
        last == DataLineOf(row, DOMAIN row)
        older == DataLineOf(OlderRow, DOMAIN row)
    IN CASE layout = "single" -> <<header, last>>
         [] layout = "rows" -> <<header, older, older, last>>
         [] layout = "trailing_blank" -> <<header, older, last, <<<<>>>>, <<<<" ", " ">>>>, <<<<>>>>>>
         [] layout = "blank_between" -> <<<<<<>>>>, header, <<<<>>>>, older, <<<<" ">>>>, last>>
         [] layout = "padded" -> <<Padded(header), older, Padded(last), <<<<>>>>>>

\* files without a data row: empty, blank, a header alone, a header and blank lines
NoRowFiles ==
    {<<<<<<>>>>>>, <<<<<<" ">>>>, <<<<>>>>>>, <<HeaderLineOf(OlderRow)>>,
     <<HeaderLineOf(OlderRow), <<<<>>>>, <<<<" ">>>>, <<<<>>>>>>}

CsvResponses ==
    {[status |-> 404]}
      \cup {[status |-> 200, content |-> content] : content \in NoRowFiles}
      \cup {[status |-> 200, content |-> FileOf(RowOf(shape, n), layout)] :
              shape \in RowShapes, n \in 1..2, layout \in FileLayouts}

\* the station tick from `parsed_data = await self._async_download_and_parse_csv(csv_url)`
\* to its end
DownloadAndParseCsv ==
    /\ csv # NoTick
    /\ csv.outcome = NoTick
    /\ csv' = [csv EXCEPT !.outcome = update_data_outcome(
                                          download_and_parse_csv(csv.response, now))]
    /\ UNCHANGED <<daily, cached_data, pollen, open_meteo, app, plz>>
    /\ UNCHANGED <<cacheVars, retryVars, forecastVars, currentVars, alertVars, entryVars,
                   stationVars>>

InitCsv ==
    /\ CacheIdle /\ RetryIdle /\ ForecastIdle /\ CurrentIdle
    /\ AlertsIdle /\ EntryIdle /\ StationsIdle
    /\ csv \in {[response |-> r, outcome |-> NoTick] : r \in CsvResponses}
    /\ daily = NoTick
    /\ cached_data = [k \in {} |-> None]
    /\ pollen = NoTick
    /\ open_meteo = NoTick
    /\ app = NoTick
    /\ plz = NoTick

NextCsv == DownloadAndParseCsv

SpecCsv == InitCsv /\ [][NextCsv]_vars

\* the file was downloaded and the tick is over
CsvDownloaded == csv # NoTick /\ csv.outcome # NoTick /\ csv.response.status = 200

\* the positions of the non-empty lines after the header, the header being the first
\* non-empty line
DataLines(content) ==
    LET header == CHOOSE i \in 1..Len(content) :
                     ~BlankLine(content[i]) /\ \A k \in 1..(i - 1) : BlankLine(content[k])
    IN {i \in (header + 1)..Len(content) : ~BlankLine(content[i])}

HasHeader(content) == \E i \in 1..Len(content) : ~BlankLine(content[i])

\* the dict of the last non-empty line after the header: every column with the value
\* the line holds in it
LastRowOf(content) ==
    LET header == CHOOSE i \in 1..Len(content) :
                     ~BlankLine(content[i]) /\ \A k \in 1..(i - 1) : BlankLine(content[k])
        last == CHOOSE i \in DataLines(content) : \A k \in DataLines(content) : i >= k
    IN RowDict(content[header], content[last])

\* C31: the reading of a station tick is taken from the last non-empty line after the
\* header of the readings file, empty trailing lines being skipped; a file with a
\* header and no non-empty data row makes the tick fail, no reading is published.
C31_LastNonEmptyRow ==
    CsvDownloaded =>
        IF HasHeader(csv.response.content) /\ DataLines(csv.response.content) # {}
        THEN csv.outcome = update_data_outcome(
                               parse_csv_row(LastRowOf(csv.response.content), now))
        ELSE csv.outcome = UpdateFailed

\* C31 witnesses: a reading published from a file that ends with blank lines, and a
\* failed tick on a header without data row
C31_Witness ==
    /\ CsvDownloaded
    /\ csv.response.content = FileOf(RowOf("full", 2), "trailing_blank")
    /\ csv.outcome.kind = "data"
    /\ csv.outcome.value.temperature = Some(20)

HeaderOnlyFails ==
    /\ CsvDownloaded
    /\ HasHeader(csv.response.content) /\ DataLines(csv.response.content) = {}
    /\ csv.outcome = UpdateFailed

(***************************************************************************)
(* The region code of the plzDetail requests: alerts.py builds it in       *)
(* get_alerts, forecast_coordinator.py in _fetch_meteoswiss_app_forecast.  *)
(* Both get the postal code of the config entry (__init__.py).             *)
(***************************************************************************)
\* plz_formatted = f"{postal_code}00"
alerts_plz(postal_code) == postal_code \o <<"0", "0">>

RECURSIVE ZeroPad(_, _)
ZeroPad(chars, width) == IF Len(chars) >= width THEN chars ELSE ZeroPad(<<"0">> \o chars, width)

\* the width of {plz:06d}
PlzWidth == 6

\* METEOSWISS_FORECAST_URL_TEMPLATE.format(plz=int(self._post_code)): "{plz:06d}"
forecast_plz(postal_code) ==
    IF ~AllDigits(postal_code) \/ postal_code = <<>> THEN Raised("ValueError")
    ELSE Returns(ZeroPad(NatChars(DecimalValue(postal_code)), PlzWidth))

PlzDigits == {"0", "1", "8"}

ConfiguredPostalCodes == [1..4 -> PlzDigits]

\* MeteoSwissAlertsAPI.get_alerts builds its URL
AlertsRequest ==
    /\ plz # NoTick
    /\ plz.alerts = NoTick
    /\ plz' = [plz EXCEPT !.alerts = Returns(alerts_plz(plz.postal_code))]
    /\ UNCHANGED <<daily, cached_data, pollen, open_meteo, app, csv>>
    /\ UNCHANGED <<cacheVars, retryVars, forecastVars, currentVars, alertVars, entryVars,
                   stationVars>>

\* _fetch_meteoswiss_app_forecast builds its URL
ForecastRequest ==
    /\ plz # NoTick
    /\ plz.forecast = NoTick
    /\ plz' = [plz EXCEPT !.forecast = forecast_plz(plz.postal_code)]
    /\ UNCHANGED <<daily, cached_data, pollen, open_meteo, app, csv>>
    /\ UNCHANGED <<cacheVars, retryVars, forecastVars, currentVars, alertVars, entryVars,
                   stationVars>>

InitRegion ==
    /\ CacheIdle /\ RetryIdle /\ ForecastIdle /\ CurrentIdle
    /\ AlertsIdle /\ EntryIdle /\ StationsIdle
    /\ plz \in {[postal_code |-> code, alerts |-> NoTick, forecast |-> NoTick] :
                   code \in ConfiguredPostalCodes}
    /\ daily = NoTick
    /\ cached_data = [k \in {} |-> None]
    /\ pollen = NoTick
    /\ open_meteo = NoTick
    /\ app = NoTick
    /\ csv = NoTick

NextRegion == AlertsRequest \/ ForecastRequest

SpecRegion == InitRegion /\ [][NextRegion]_vars

BothRequested == plz # NoTick /\ plz.alerts # NoTick /\ plz.forecast # NoTick

\* C32: for the same configured postal code, the alerts fetch and forecast source 3
\* query the API with the same region code of 6 digits.
C32_SameRegionCode ==
    BothRequested
        => /\ "returns" \in DOMAIN plz.forecast
           /\ plz.alerts.returns = plz.forecast.returns
           /\ Len(plz.alerts.returns) = PlzWidth

\* both region codes have 6 digits
C32_BothHaveSixDigits ==
    BothRequested
        => /\ "returns" \in DOMAIN plz.forecast
           /\ Len(plz.forecast.returns) = PlzWidth
           /\ Len(plz.alerts.returns) = PlzWidth

(***************************************************************************)
(* Claims about coordinators that share the current-weather cache.         *)
(***************************************************************************)
\* coordinator c has missed the cache and waits for the network
Fetching(c) == cpc[c] \in {"await_url", "await_csv", "await_fetch"}

SameCacheKey(c, d) ==
    /\ cpc[c] # "absent" /\ cpc[d] # "absent"
    /\ CacheKeyOf(cconf[c]) = CacheKeyOf(cconf[d])

\* no two coordinators use the same cache key
OneCoordinatorPerKey ==
    \A c, d \in Coords : c # d => ~SameCacheKey(c, d)

\* C33: at most one coordinator uses a cache key, so that two ticks never race on
\* an entry: no two coordinators of one key have both missed it and are both
\* fetching for it, the later to overwrite what the earlier stores.
C33_NoRaceOnCacheKey ==
    \A c, d \in Coords :
       (c # d /\ SameCacheKey(c, d)) => ~(Fetching(c) /\ Fetching(d))

\* two ticks on different keys overlap at the network awaits
OverlapOnDifferentKeys ==
    \E c, d \in Coords :
       /\ c # d /\ cpc[c] # "absent" /\ cpc[d] # "absent"
       /\ CacheKeyOf(cconf[c]) # CacheKeyOf(cconf[d])
       /\ Fetching(c) /\ Fetching(d)

\* both coordinators of one key missed and fetch at the same time
DoubleFetch ==
    \E c, d \in Coords : c # d /\ SameCacheKey(c, d) /\ Fetching(c) /\ Fetching(d)

(***************************************************************************)
(* Claims about the cache of the scraping pollen client.                   *)
(***************************************************************************)
\* C34: a completed get_pollen_data(postal_code) leaves its mapping, empty or not,
\* under the postal code; every later call for that postal code returns that mapping
\* and makes no request, and only clear_cache takes a mapping away.
C34_PollenServedFromCacheForever ==
    [][/\ pollen' # pollen
          => LET cache_key == PollenCacheKey(pollen'.postal_code)
             IN /\ cache_key \in DOMAIN cached_data'
                /\ cached_data'[cache_key] = pollen'.returns
                /\ IF cache_key \in DOMAIN cached_data
                   THEN /\ pollen'.returns = cached_data[cache_key]
                        /\ pollen'.requests = 0
                        /\ cached_data' = cached_data
                   ELSE pollen'.requests = Len(PollenPages)
       /\ (\E k \in DOMAIN cached_data :
              k \notin DOMAIN cached_data' \/ cached_data'[k] # cached_data[k])
          => (ClearPollenCache /\ pollen' = pollen)]_vars

\* C34 witness: a second call for a postal code whose first call found nothing is
\* answered with the empty mapping, without a request, although the pages now have
\* levels
C34_Witness ==
    /\ pollen # NoTick
    /\ pollen.calls = 2
    /\ pollen.requests = 0
    /\ DOMAIN pollen.returns = {}
    /\ pollen.answers # NoPollenAnswers

\* a later call returned a mapping with levels from the cache
StaleLevelsServed ==
    /\ pollen # NoTick
    /\ pollen.requests = 0
    /\ DOMAIN pollen.returns # {}
    /\ pollen.returns # FetchPages([k \in {} |-> None], 1, pollen.answers, now)

(***************************************************************************)
(* coordinator.py: the ticks of a current-conditions coordinator by what   *)
(* starts them.  The coordinator hands update_interval to                  *)
(* DataUpdateCoordinator, which starts a scheduled tick no earlier than    *)
(* update_interval after the coordinator's last refresh ended, whatever    *)
(* started that refresh; a refresh request starts a tick at any time.      *)
(***************************************************************************)
\* how far the clock runs, in steps of the default TTL
MaxRefreshSteps == 3

\* row and response shapes of the fetches: one that parses and one that fails the tick
RefreshShapes == {"full", "blank", "no_current"}

\* what the base class keeps of a refresh of coordinator c started by `tick`: the next
\* scheduled tick is set up when the refresh ends
Refreshed(c, tick) ==
    refresh' = [refresh EXCEPT ![c] =
                   [tick |-> tick,
                    due |-> IF cpc'[c] = "idle" THEN Some(now + update_interval[c]) ELSE None,
                    count |-> IF cpc[c] = "idle" THEN @.count + 1 ELSE @.count]]

\* update_interval=timedelta(seconds=update_interval): the scheduled tick, when due
ScheduledRefresh(c) ==
    /\ refresh[c].due # None
    /\ now >= refresh[c].due.some
    /\ CurrentTickStart(c)
    /\ Refreshed(c, "scheduled")

\* a refresh outside the schedule: the first refresh of the setup, or a request
RequestRefresh(c) ==
    /\ CurrentTickStart(c)
    /\ Refreshed(c, "request")

RefreshClock ==
    /\ now < MaxRefreshSteps * DefaultTtl
    /\ now' = now + DefaultTtl
    /\ UNCHANGED <<cache, hits, misses, evictions, call, ret, nops, lastSet, expiredSeen>>
    /\ UNCHANGED <<retryVars, forecastVars, currentVars, restVars>>

InitSchedule == InitCurrent

NextSchedule ==
    \/ \E c \in Coords, id \in CurrentStationIds, interval \in AskedIntervals :
          ConstructStation(c, id, interval) /\ UNCHANGED refresh
    \/ \E c \in Coords, p \in CoordinatePairs, interval \in AskedIntervals :
          ConstructOpenMeteo(c, p[1], p[2], interval) /\ UNCHANGED refresh
    \/ RefreshClock
    \/ \E c \in Coords : ScheduledRefresh(c)
    \/ \E c \in Coords : RequestRefresh(c)
    \/ \E c \in Coords, found \in BOOLEAN :
          StationUrlDone(c, found) /\ Refreshed(c, refresh[c].tick)
    \/ \E c \in Coords, downloaded \in BOOLEAN, shape \in RefreshShapes \cap RowShapes :
          StationCsvDone(c, downloaded, shape) /\ Refreshed(c, refresh[c].tick)
    \/ \E c \in Coords, answered \in BOOLEAN, shape \in RefreshShapes \cap ResponseShapes :
          OpenMeteoFetchDone(c, answered, shape) /\ Refreshed(c, refresh[c].tick)

SpecSchedule == InitSchedule /\ [][NextSchedule]_vars

\* the step starts a tick of coordinator c
TickStarts(c) == cpc[c] = "idle" /\ refresh'[c].count = refresh[c].count + 1

\* the tick that starts misses the cache and goes to the network
MissesAndFetches(c) ==
    /\ misses' = misses + 1
    /\ hits' = hits
    /\ cpc'[c] \in {"await_url", "await_fetch"}
    /\ cnet'[c] # <<>>

\* the tick that starts is served from the cache
HitsCache(c) == hits' = hits + 1 /\ cresult'[c].kind = "data" /\ cresult'[c].from = "cache"

\* C35: with the TTL of 300 s and update_interval at least 600 s, every scheduled
\* tick of a coordinator that shares its cache key with no other coordinator misses
\* the cache and goes to the network; a tick of such a coordinator is served from
\* the cache only when a refresh request started it, within 300 s of the set of
\* its last successful fetch.
C35_ScheduledTicksAlwaysFetch ==
    [][\A c \in Coords :
          (TickStarts(c) /\ NoOtherCoordinatorShares(c))
          => /\ refresh'[c].tick = "scheduled" => MissesAndFetches(c)
             /\ HitsCache(c)
                => /\ refresh'[c].tick = "request"
                   /\ lastSet[CacheKeyOf(cconf[c])] # NoSet
                   /\ now - cache[CacheKeyOf(cconf[c])].timestamp <= DefaultTtl]_vars

\* C35 witness: a scheduled tick of a coordinator alone on its key, whose earlier
\* fetch succeeded, has found the entry expired and is at its upstream
C35_Witness ==
    \E c \in Coords :
       /\ NoOtherCoordinatorShares(c)
       /\ refresh[c].tick = "scheduled"
       /\ refresh[c].count = 2
       /\ lastSet[CacheKeyOf(cconf[c])] # NoSet
       /\ evictions = 1
       /\ cpc[c] \in {"await_url", "await_fetch"}

\* a refresh request within the TTL of the last fetch was served from the cache
RequestServedFromCache ==
    \E c \in Coords :
       /\ NoOtherCoordinatorShares(c)
       /\ refresh[c].tick = "request"
       /\ refresh[c].count = 2
       /\ cresult[c].kind = "data" /\ cresult[c].from = "cache"
       /\ now = DefaultTtl

(***************************************************************************)
(* Claims about the counters of the cache.                                 *)
(***************************************************************************)
\* the step is a get call, made directly or inside get_or_set
GetCalled == CallOf("get") \/ CallOf("get_or_set")

\* the expired entries the step removes
ExpiredRemoved ==
    IF GetCalled THEN ExpiredKeys \cap {call'.key}
    ELSE IF CallOf("cleanup_expired") THEN ExpiredKeys
    ELSE {}

ALERT_SENSOR_DESCRIPTIONS ==
    {[key |-> "any_alert", warn_level |-> None, warn_type |-> None],
     [key |-> "critical_alert", warn_level |-> Some(3), warn_type |-> None]}

\* the loop of is_on: the alert makes the sensor report on
MatchesCriteria(alert, description) ==
    /\ ~alert.outlook
    /\ ~(description.warn_level # None /\ alert.warn_level < description.warn_level.some)
    /\ ~(description.warn_type # None /\ alert.warn_type # description.warn_type.some)

\* MeteoSwissAlertBinarySensor.is_on; has_data is `coordinator.data is not None`
is_on(has_data, alerts, description) ==
    /\ has_data
    /\ alerts # <<>>
    /\ \E i \in 1..Len(alerts) : MatchesCriteria(alerts[i], description)

\* MeteoSwissAlertBinarySensor.extra_state_attributes at time t: the attributes, or
\* the TypeError of an is_active call
extra_state_attributes(has_data, alerts, t) ==
    IF ~has_data \/ alerts = <<>>
    THEN Returns([active_alerts_count |-> 0, alerts |-> <<>>])
    ELSE IF \E i \in 1..Len(alerts) :
               ~alerts[i].outlook /\ is_active(alerts[i], t) = Raised("TypeError")
         THEN Raised("TypeError")
         ELSE LET active_alerts ==
                      SelectSeq(alerts, LAMBDA a : ~a.outlook /\ is_active(a, t) = Returns(TRUE))
              IN Returns([active_alerts_count |-> Len(active_alerts), alerts |-> active_alerts])

\* the attributes of the sensors over the published snapshot, now
PublishedAttributes == extra_state_attributes(TRUE, adata, NowMs)

\* C37: whenever an alert binary sensor is on over a published snapshot, its
\* active_alerts_count attribute is at least 1.
C37_OnImpliesActiveCount ==
    AlertsTickDone =>
       \A description \in ALERT_SENSOR_DESCRIPTIONS :
          is_on(TRUE, adata, description)
          => /\ PublishedAttributes # Raised("TypeError")
             /\ PublishedAttributes.returns.active_alerts_count >= 1

\* every alert of the snapshot that is not an outlook is inside its validity window
\* and is of level 3 or above
AllCurrentAndCritical ==
    \A i \in 1..Len(adata) :
       adata[i].outlook
       \/ (is_active(adata[i], NowMs) = Returns(TRUE) /\ is_critical(adata[i]))

\* C37 for snapshots whose alerts are all current: a sensor that is on has at least
\* one active alert, and the any-alert sensor is on exactly when the count is not 0.
C37_HoldsForCurrentAlerts ==
    (AlertsTickDone /\ AllCurrentAndCritical)
    => /\ \A description \in ALERT_SENSOR_DESCRIPTIONS :
             is_on(TRUE, adata, description)
             <=> PublishedAttributes.returns.active_alerts_count >= 1

\* a sensor is on over a snapshot whose only alert is not yet valid: the count is 0
OnWithoutActiveAlert ==
    /\ AlertsTickDone
    /\ Len(adata) = 1
    /\ is_on(TRUE, adata, CHOOSE d \in ALERT_SENSOR_DESCRIPTIONS : d.key = "any_alert")
    /\ PublishedAttributes = Returns([active_alerts_count |-> 0, alerts |-> <<>>])

(***************************************************************************)
(* Claims about data_source over failed forecast ticks.                    *)
(***************************************************************************)
\* the name of the source that served the last successful tick, None before one
LastServedName == IF served = None THEN None ELSE SourceName(served.some)

\* C38: the step that ends a forecast tick in failure leaves data_source as it was,
\* and while a tick is under way or has failed data_source is the name of the
\* source that served the last successful tick, None when there was none.
C38_FailedTickKeepsDataSource ==
    /\ [][(fpc' = "idle" /\ tickResult' = UpdateFailed /\ fticks' > 0)
             => data_source' = data_source]_vars
    /\ []((fpc = "await" \/ (TickOver /\ tickResult = UpdateFailed))
             => data_source = LastServedName)

\* C38 witness: the first tick was served by the CSV feed, the second requested
\* sources and failed, and data_source still names the CSV feed
C38_Witness ==
    /\ TickOver
    /\ fticks = 2
    /\ tickResult = UpdateFailed
    /\ requested # <<>>
    /\ served = Some(2)
    /\ data_source = SourceName(2)

(***************************************************************************)
(* Claims about the retry wrapper with no attempt to make.                 *)
(***************************************************************************)
\* C39: with max_attempts <= 0 the wrapper never invokes the function and never
\* sleeps, and when it is done it has returned None: no result, no exception.
C39_NoAttemptsNoCall ==
    max_attempts <= 0
    => /\ invocations = <<>>
       /\ sleeps = <<>>
       /\ rpc \in {"start", "done"}
       /\ last_exception = None
       /\ rpc = "done" => result = [kind |-> "return", value |-> None]

\* C39 witness: the wrapper is done with a negative max_attempts
C39_Witness ==
    /\ max_attempts < 0
    /\ rpc = "done"
    /\ invocations = <<>>
    /\ result = [kind |-> "return", value |-> None]

\* the wrapper is done with max_attempts = 0
ZeroAttemptsDone == max_attempts = 0 /\ rpc = "done" /\ result.kind = "return"

====
